---- MODULE Spec2Model ----
(***************************************************************************)
(* A model of perspecta's DICOM core (src/src/dicom.rs): the lazily filled *)
(* multi-frame Frame Store with its background preload runs, the File Meta *)
(* group-length repair, the object loader that falls back on it, and the   *)
(* frame-count derivation of load_dicom; and of its DICOMweb client        *)
(* (src/src/dicomweb.rs): the instance selector, the multipart unwrapping, *)
(* the base URL normalization, the metadata extractor and the downloads.   *)
(***************************************************************************)
EXTENDS Integers, Sequences, FiniteSets, TLC

VARIABLES
    \* ---- Frame Store (LazyMonoFrames / LazyRgbFrames) ----
    cache,            \* Arc<Mutex<Vec<Option<Arc<[..]>>>>>: slot index -> None | Some(frame)
    preload_started,  \* Arc<AtomicBool>
    runs,             \* the preload runs spawned so far, oldest first
    badFrames,        \* frames of the source whose decode fails
    reopenFaults,     \* whether reopening the source can fail
    envWorkers,       \* PERSPECTA_PRELOAD_WORKERS (0: unset, zero or unparsable)
    cpus,             \* thread::available_parallelism()
    \* ---- Meta-Header Repair and Object Loader ----
    input,            \* the file: its prefix, its elements and how much of its end is cut off
    rp,               \* repair_missing_meta_group_length(bytes): whether it ran, and its result
    opened,           \* open_dicom_object(path): whether it ran, and its result
    \* ---- load_dicom ----
    dcm,              \* the file given to load_dicom: what its tags and its decoder answer
    image,            \* load_dicom(path): whether it ran, and its result
    \* ---- Instance Selector (dicomweb.rs) ----
    instances,             \* Vec<MetadataInstance>: the metadata of a study or series
    requested_series_uid,  \* Option<&str>
    selected,              \* reduce_series_instances / select_instances_for_viewer: the result
    \* ---- Multipart unwrapping (dicomweb.rs) ----
    response_bytes,   \* the response body: how it is built (envelope, boundary, payload)
    unwrapped,        \* unwrap_dicom_multipart(body): whether it ran, and its result
    \* ---- Base URL normalization (dicomweb.rs) ----
    base_url,         \* request.base_url
    base,             \* normalize_base_url(base_url), and normalize_base_url of that
    \* ---- Metadata extractor (dicomweb.rs) ----
    metadata_json,        \* the metadata response: the objects it is built from
    metadata_instances,   \* parse_metadata_instances(&metadata_json): whether it ran, and its result
    \* ---- download_instance (dicomweb.rs) ----
    series_uid,       \* Option<&str>: the series of the instance, when the metadata gave it
    attempt,          \* the place in the two loops: the URL and the Accept variant tried next
    last_error,       \* Option<String>
    fetched,          \* bytes: Option<Vec<u8>>
    requests,         \* the calls of http_get_bytes made so far, oldest first
    instance_path,    \* download_instance(..): whether it returned, and its result
    \* ---- download_dicomweb_group_request (dicomweb.rs) ----
    group_request,    \* request.groups and request.open_group
    progress,         \* the place in the loop over the groups
    jobs,             \* the downloads of the group at hand: not started, running, or their result
    delivered,        \* the paths handed to on_active_path so far, oldest first
    downloaded_groups,\* Vec<Vec<PathBuf>>
    group_result,     \* download_dicomweb_group_request(..): whether it returned, and its result
    \* ---- preload_worker_count and the shards of a run (dicom.rs) ----
    preload_input,    \* PERSPECTA_PRELOAD_WORKERS, available_parallelism() and the frame count
    preload_plan,     \* the worker count and the shard of every worker, once computed
    \* ---- read_explicit_vr_element_length (dicom.rs) ----
    element,          \* a File Meta element: its VR, its length fields and where it starts
    element_length,   \* read_explicit_vr_element_length(bytes, position, vr): whether it ran, and its result
    \* ---- split_top_level_json_objects (dicomweb.rs) ----
    json_input,       \* the text handed to split_top_level_json_objects
    json_objects,     \* whether it ran, and its Result
    \* ---- parse_perspecta_uri (launch.rs) ----
    launch_query,     \* the query parameters the URI is written from
    launch_request,   \* parse_perspecta_uri(uri): whether it ran, and its Result
    \* ---- the viewer during a grouped DICOMweb download (app.rs) ----
    app,              \* the fields of DicomViewerApp the polls read and write
    ui_step,          \* where update() is: the launch request, or the poll to run next
    worker_step,      \* where the download thread is
    stream_updates,   \* the DicomWebGroupStreamUpdate channel: the updates not yet received
    stream_sender,    \* whether the download thread still holds active_path_tx
    download_results, \* the channel of the download result
    load_threads,     \* the threads that load images for the 2x2 group
    load_results,     \* the PendingMammoLoad channels: the results not yet received
    \* ---- the history of the viewer (app.rs) ----
    ui_events,        \* the key presses, clicks and file openings still to come
    queued_entry      \* the entry that was at the queued index when the opening was queued,
                      \* while no file has been opened since

fsVars == <<cache, preload_started, runs, badFrames, reopenFaults, envWorkers, cpus>>
rpVars == <<input, rp, opened>>
ldVars == <<dcm, image>>
ppVars == <<preload_input, preload_plan>>
elVars == <<element, element_length>>
jsVars == <<json_input, json_objects>>
lqVars == <<launch_query, launch_request>>
uiVars == <<app, ui_step, worker_step, stream_updates, stream_sender, download_results,
           load_threads, load_results>>
hsVars == <<ui_events, queued_entry>>
auxVars == <<ppVars, elVars, jsVars, lqVars, uiVars, hsVars>>
slVars == <<instances, requested_series_uid, selected>>
mpVars == <<response_bytes, unwrapped>>
nbVars == <<base_url, base>>
mdVars == <<metadata_json, metadata_instances>>
diVars == <<series_uid, attempt, last_error, fetched, requests, instance_path>>
dgVars == <<group_request, progress, jobs, delivered, downloaded_groups, group_result>>
dlVars == <<diVars, dgVars>>
wbVars == <<slVars, mpVars, nbVars, mdVars, dlVars>>
nonSlVars == <<fsVars, rpVars, ldVars, auxVars, mpVars, nbVars, mdVars, dlVars>>
nonMpVars == <<fsVars, rpVars, ldVars, auxVars, slVars, nbVars, mdVars, dlVars>>
nonNbVars == <<fsVars, rpVars, ldVars, auxVars, slVars, mpVars, mdVars, dlVars>>
nonMdVars == <<fsVars, rpVars, ldVars, auxVars, slVars, mpVars, nbVars, dlVars>>
nonDiVars == <<fsVars, rpVars, ldVars, auxVars, slVars, mpVars, nbVars, mdVars, dgVars>>
nonDgVars == <<fsVars, rpVars, ldVars, auxVars, slVars, mpVars, nbVars, mdVars, diVars>>
nonFsVars == <<rpVars, ldVars, auxVars, wbVars>>
nonRpVars == <<fsVars, ldVars, auxVars, wbVars>>
nonLdVars == <<fsVars, rpVars, auxVars, wbVars>>
nonPpVars == <<fsVars, rpVars, ldVars, elVars, jsVars, lqVars, uiVars, hsVars, wbVars>>
nonElVars == <<fsVars, rpVars, ldVars, ppVars, jsVars, lqVars, uiVars, hsVars, wbVars>>
nonJsVars == <<fsVars, rpVars, ldVars, ppVars, elVars, lqVars, uiVars, hsVars, wbVars>>
nonLqVars == <<fsVars, rpVars, ldVars, ppVars, elVars, jsVars, uiVars, hsVars, wbVars>>
nonUiVars == <<fsVars, rpVars, ldVars, ppVars, elVars, jsVars, lqVars, hsVars, wbVars>>
nonWbVars == <<fsVars, rpVars, ldVars, auxVars>>
\* Everything but the viewer and its history.
nonViewerVars == <<fsVars, rpVars, ldVars, ppVars, elVars, jsVars, lqVars, wbVars>>
vars == <<fsVars, rpVars, ldVars, auxVars, wbVars>>

----------------------------------------------------------------------------
\* Bounds of the model.
FrameCount == 3
MaxRuns == 2

----------------------------------------------------------------------------
\* Option<T>
None == <<>>
Some(x) == <<x>>
IsSome(o) == o # None
Unwrap(o) == o[1]

Min(a, b) == IF a < b THEN a ELSE b
Max(a, b) == IF a > b THEN a ELSE b
clamp(x, lo, hi) == IF x < lo THEN lo ELSE IF x > hi THEN hi ELSE x
\* The element of a set of one: what the set is built from is worked out once.
The(S) == CHOOSE x \in S : TRUE

\* The components at rest, while another one is explored.
NoInput == [kind |-> "none", elems |-> <<>>, cut |-> 0]
Pending == [done |-> FALSE, out |-> None]
\* A ReadError (or none), and open_dicom_object not yet called.
NoError == [kind |-> "none", group |-> 0, element |-> 0]
NotOpened == [done |-> FALSE, parse |-> NoError, out |-> None]
RpIdle == input = NoInput /\ rp = Pending /\ opened = NotOpened
NoTag == [present |-> FALSE, kind |-> "int", n |-> 0, style |-> "plain", text |-> <<>>]
NoFile == [fault |-> "none", NumberOfFrames |-> NoTag, samples_per_pixel |-> 1,
           bits_allocated |-> 8, late |-> "none", first_frame_pixels |-> <<100>>,
           WindowCenter |-> <<>>, WindowWidth |-> <<>>]
LdIdle == dcm = NoFile /\ image = Pending
NoPreloadInput == [env |-> <<>>, parallelism |-> 0, frame_count |-> 0]
PpIdle == preload_input = NoPreloadInput /\ preload_plan = Pending
NoElement == [vr |-> <<>>, short_len |-> <<>>, long_len |-> <<>>, position |-> 0]
ElIdle == element = NoElement /\ element_length = Pending
JsIdle == json_input = <<>> /\ json_objects = Pending
LqIdle == launch_query = <<>> /\ launch_request = Pending
\* DicomViewerApp with nothing open and nothing in progress.
FreshApp ==
    [pending_launch_request |-> FALSE,
     dicomweb_receiver |-> FALSE,
     dicomweb_active_path_receiver |-> FALSE,
     dicomweb_active_group_expected |-> None,
     dicomweb_active_group_paths |-> <<>>,
     dicomweb_active_pending_paths |-> <<>>,
     mammo_load_sender |-> None,
     mammo_load_receiver |-> None,
     mammo_group |-> <<>>,
     history_pushed_for_active_group |-> FALSE,
     status_line |-> "",
     current_single_path |-> None,
     history_entries |-> <<>>,
     history_preload_receiver |-> FALSE,
     pending_history_open_index |-> None,
     pending_history_open_armed |-> FALSE]
UiIdle ==
    /\ app = FreshApp
    /\ ui_step = "idle"
    /\ worker_step = 0
    /\ stream_updates = <<>>
    /\ stream_sender = FALSE
    /\ download_results = <<>>
    /\ load_threads = {}
    /\ load_results = <<>>
HsIdle == ui_events = <<>> /\ queued_entry = None
AuxIdle == PpIdle /\ ElIdle /\ JsIdle /\ LqIdle /\ UiIdle /\ HsIdle
SlIdle == instances = <<>> /\ requested_series_uid = None /\ selected = Pending
NoBody == [kind |-> "plain", boundary |-> <<>>, payload |-> <<>>]
MpIdle == response_bytes = NoBody /\ unwrapped = Pending
NbIdle == base_url = <<>> /\ base = Pending
MdIdle == metadata_json = <<>> /\ metadata_instances = Pending
NoAttempt == [url |-> 0, accept |-> 0]
DiIdle ==
    /\ series_uid = None /\ attempt = NoAttempt /\ last_error = None
    /\ fetched = None /\ requests = <<>> /\ instance_path = Pending
NoGroups == [groups |-> <<>>, open_group |-> 0]
NotStarted == [at |-> "idle", group_index |-> 0, instance |-> 0]
DgIdle ==
    /\ group_request = NoGroups /\ progress = NotStarted /\ jobs = <<>>
    /\ delivered = <<>> /\ downloaded_groups = <<>> /\ group_result = Pending
DlIdle == DiIdle /\ DgIdle
WbIdle == SlIdle /\ MpIdle /\ NbIdle /\ MdIdle /\ DlIdle

----------------------------------------------------------------------------
\* The Frame Store.

Frames == 0 .. FrameCount - 1

\* The settings of PERSPECTA_PRELOAD_WORKERS and the machines the store runs on.
WorkerSettings == {0, 1, 2}
CpuCounts == {1, 2}

\* The pixels of frame i of the source object, as decode_pixel_data_frame(i)
\* followed by to_vec_frame(0) yields them.
PixelsOf(i) == 100 + i

\* A decoded frame: its samples, and the allocation (Arc) that holds them, named
\* by who made it: <<0, 0>> is load_dicom, <<r, w>> is worker w of run r.
Frame(px, by) == [px |-> px, by |-> by]

\* Mutant of NewLazyCache: slot 0 is left empty.
NewEmptyCache(frame_count) == [i \in 0 .. frame_count - 1 |-> None]

\* load_dicom, frame_count > 1: vec![None; frame_count] with slot 0 pre-filled.
NewLazyCache(frame_count) ==
    [i \in 0 .. frame_count - 1 |-> IF i = 0 THEN Some(Frame(PixelsOf(0), <<0, 0>>)) ELSE None]
InitialCache == NewLazyCache(FrameCount)

\* cache.get(frame_index).and_then(|slot| slot.clone())
frame(c, frame_index) == IF frame_index \in DOMAIN c THEN c[frame_index] ELSE None

configured_preload_workers == IF envWorkers = 0 THEN None ELSE Some(envWorkers)

\* Mutant of worker_count_for: the frame count does not limit the workers.
worker_count_ignoring_frames(configured_workers, parallelism, frame_count) ==
    clamp(IF IsSome(configured_workers) THEN Unwrap(configured_workers)
          ELSE clamp(IF parallelism = 0 THEN 2 ELSE parallelism, 1, 4), 1, 32)

\* The body of preload_worker_count, given what configured_preload_workers()
\* and thread::available_parallelism() answer (parallelism 0: it answers Err).
worker_count_for(configured_workers, parallelism, frame_count) ==
    LET auto_workers == clamp(IF parallelism = 0 THEN 2 ELSE parallelism, 1, 4)
        configured == IF IsSome(configured_workers) THEN Unwrap(configured_workers) ELSE auto_workers
    IN  Min(clamp(configured, 1, 32), Max(frame_count, 1))

preload_worker_count(frame_count) == worker_count_for(configured_preload_workers, cpus, frame_count)

\* Mutant of StoreIfEmpty: the store without the slot.is_none() test.
StoreAlways(c, frame_index, f) ==
    IF frame_index \in DOMAIN c THEN [c EXCEPT ![frame_index] = Some(f)] ELSE c

\* guard.get_mut(frame_index): if slot.is_none() { *slot = Some(frame_pixels) }
StoreIfEmpty(c, frame_index, f) ==
    IF frame_index \in DOMAIN c /\ c[frame_index] = None
    THEN [c EXCEPT ![frame_index] = Some(f)]
    ELSE c

\* Mutant of DecodeFrame: a failed decode hands on a zeroed buffer.
DecodeFrameGarbled(frame_index) ==
    IF frame_index \in badFrames THEN Some(0) ELSE Some(PixelsOf(frame_index))

\* decode_pixel_data_frame(frame_index) and the conversion of its samples:
\* Some(pixels), or None when either fails.
DecodeFrame(frame_index) ==
    IF frame_index \in badFrames THEN None ELSE Some(PixelsOf(frame_index))

\* Mutant of ShardNext: a stride one too long.
ShardNextSkipping(idx, worker_count) == idx + worker_count + 1

\* (worker_id..frame_count).step_by(worker_count): the index after idx.
ShardNext(idx, worker_count) == idx + worker_count

\* Mutant of WorkerAt: a worker leaves its loop once any worker has failed.
WorkerAtUnlessFailed(idx, frame_count) ==
    IF idx < frame_count
          /\ ~\E r \in 1 .. Len(runs) : \E w \in DOMAIN runs[r].workers : runs[r].workers[w].pc = "err"
    THEN [pc |-> "check", idx |-> idx, px |-> 0]
    ELSE [pc |-> "ok", idx |-> idx, px |-> 0]

\* for frame_index in (worker_id..frame_count).step_by(worker_count): the turn of
\* the loop for idx, or Ok(()) after the last one.
WorkerAt(idx, frame_count) ==
    IF idx < frame_count THEN [pc |-> "check", idx |-> idx, px |-> 0]
    ELSE [pc |-> "ok", idx |-> idx, px |-> 0]

NewRun == [status |-> "spawned", W |-> 0, join |-> 0, workers |-> <<>>]

RunIds == 1 .. Len(runs)
WorkerIds(r) == DOMAIN runs[r].workers

\* LazyMonoFrames::ensure_background_preload: swap(true), spawn on false.
ensure_background_preload ==
    IF preload_started
    THEN UNCHANGED <<preload_started, runs>>
    ELSE /\ preload_started' = TRUE
         /\ runs' = Append(runs, NewRun)

\* LazyMonoFrames::frame(frame_index)
FrameCall(i) ==
    /\ preload_started \/ Len(runs) < MaxRuns
    /\ ensure_background_preload
    /\ UNCHANGED <<nonFsVars, cache, badFrames, reopenFaults, envWorkers, cpus>>

\* preload_mono_frames_from_path up to the spawning of its workers.
RunStart(r) ==
    /\ runs[r].status = "spawned"
    /\ LET frame_count == Cardinality(DOMAIN cache)
           W == preload_worker_count(frame_count)
       IN  runs' = [runs EXCEPT ![r] =
                IF frame_count <= 1
                THEN [@ EXCEPT !.status = "ok"]
                ELSE [status |-> "running", W |-> W, join |-> 0,
                      workers |-> [w \in 0 .. W - 1 |-> [pc |-> "open", idx |-> w, px |-> 0]]]]
    /\ UNCHANGED <<nonFsVars, cache, preload_started, badFrames, reopenFaults, envWorkers, cpus>>

\* A worker: open_dicom_object(&path)?  ("err" stands for every way a worker ends
\* without Ok(()): an error returned, or a panic the join reports.)
WorkerOpen(r, w) ==
    /\ runs[r].workers[w].pc = "open"
    /\ \E ok \in (IF reopenFaults THEN BOOLEAN ELSE {TRUE}) :
         runs' = [runs EXCEPT ![r].workers[w] =
                    IF ok THEN WorkerAt(@.idx, Cardinality(DOMAIN cache))
                    ELSE [@ EXCEPT !.pc = "err"]]
    /\ UNCHANGED <<nonFsVars, cache, preload_started, badFrames, reopenFaults, envWorkers, cpus>>

\* A worker: the already_loaded check under the lock.
WorkerCheck(r, w) ==
    /\ runs[r].workers[w].pc = "check"
    /\ LET me == runs[r].workers[w]
           already_loaded == IsSome(frame(cache, me.idx))
       IN  runs' = [runs EXCEPT ![r].workers[w] =
                IF already_loaded
                THEN WorkerAt(ShardNext(me.idx, runs[r].W), Cardinality(DOMAIN cache))
                ELSE [@ EXCEPT !.pc = "decode"]]
    /\ UNCHANGED <<nonFsVars, cache, preload_started, badFrames, reopenFaults, envWorkers, cpus>>

\* A worker: decoding its frame, outside the lock.
WorkerDecode(r, w) ==
    /\ runs[r].workers[w].pc = "decode"
    /\ LET me == runs[r].workers[w]
           decoded == DecodeFrame(me.idx)
       IN  runs' = [runs EXCEPT ![r].workers[w] =
                IF IsSome(decoded)
                THEN [@ EXCEPT !.pc = "store", !.px = Unwrap(decoded)]
                ELSE [@ EXCEPT !.pc = "err"]]
    /\ UNCHANGED <<nonFsVars, cache, preload_started, badFrames, reopenFaults, envWorkers, cpus>>

\* A worker: storing its frame under the lock, then the next index of its shard.
WorkerStore(r, w) ==
    /\ runs[r].workers[w].pc = "store"
    /\ LET me == runs[r].workers[w]
       IN  /\ cache' = StoreIfEmpty(cache, me.idx, Frame(me.px, <<r, w>>))
           /\ runs' = [runs EXCEPT ![r].workers[w] =
                WorkerAt(ShardNext(me.idx, runs[r].W), Cardinality(DOMAIN cache))]
    /\ UNCHANGED <<nonFsVars, preload_started, badFrames, reopenFaults, envWorkers, cpus>>

\* Mutant of RunJoin: a failed run that leaves preload_started set.
RunJoinKeepsFlag(r) ==
    /\ runs[r].status = "running"
    /\ LET k == runs[r].join
           result == runs[r].workers[k].pc
       IN  /\ result \in {"ok", "err"}
           /\ runs' = IF result = "err"
                      THEN [runs EXCEPT ![r].status = "failed"]
                      ELSE [runs EXCEPT ![r].join = k + 1,
                                        ![r].status = IF k + 1 = runs[r].W THEN "ok" ELSE "running"]
    /\ UNCHANGED <<nonFsVars, cache, preload_started, badFrames, reopenFaults, envWorkers, cpus>>

\* preload_mono_frames_from_path: for worker in workers { worker.join() ... result? },
\* and the store(false) of the spawned closure when the run returns Err.
RunJoin(r) ==
    /\ runs[r].status = "running"
    /\ LET k == runs[r].join
           result == runs[r].workers[k].pc
       IN  /\ result \in {"ok", "err"}
           /\ IF result = "err"
              THEN /\ runs' = [runs EXCEPT ![r].status = "failed"]
                   /\ preload_started' = FALSE
              ELSE /\ runs' = [runs EXCEPT ![r].join = k + 1,
                                           ![r].status = IF k + 1 = runs[r].W THEN "ok" ELSE "running"]
                   /\ UNCHANGED preload_started
    /\ UNCHANGED <<nonFsVars, cache, badFrames, reopenFaults, envWorkers, cpus>>

FsInit ==
    /\ cache = InitialCache
    /\ preload_started = FALSE
    /\ runs = <<>>
    /\ badFrames \in SUBSET (Frames \ {0})
    /\ reopenFaults \in BOOLEAN
    /\ envWorkers \in WorkerSettings
    /\ cpus \in CpuCounts

\* A source whose frames all decode and that can always be reopened.
FsInitOk ==
    /\ FsInit
    /\ badFrames = {}
    /\ reopenFaults = FALSE

WorkerStep ==
    \E r \in RunIds : \E w \in WorkerIds(r) :
        \/ WorkerOpen(r, w)
        \/ WorkerCheck(r, w)
        \/ WorkerDecode(r, w)
        \/ WorkerStore(r, w)

\* The steps of the background threads: the run's own thread and its workers.
BackgroundStep ==
    \/ \E r \in RunIds : RunStart(r)
    \/ \E r \in RunIds : RunJoin(r)
    \/ WorkerStep

FsNext ==
    \/ \E i \in 0 .. FrameCount : FrameCall(i)
    \/ BackgroundStep

Init == FsInit /\ RpIdle /\ LdIdle /\ AuxIdle /\ WbIdle
Next == FsNext
Spec == Init /\ [][Next]_vars

\* The store of a fully decodable source, its threads scheduled fairly.
InitOk == FsInitOk /\ RpIdle /\ LdIdle /\ AuxIdle /\ WbIdle
SpecPreloadOk == InitOk /\ [][Next]_vars /\ WF_vars(BackgroundStep)

----------------------------------------------------------------------------
\* The Frame Store's claims.

WorkerExecuting(r) == \E w \in WorkerIds(r) : runs[r].workers[w].pc \notin {"ok", "err"}
RunExecuting(r) == runs[r].status \in {"spawned", "running"} \/ WorkerExecuting(r)

\* C1: a slot that holds a decoded frame never changes and never becomes empty
\* again, whatever step is taken by frame(), by a worker or by a run.
C1_FilledSlotNeverChanges ==
    [][\A i \in Frames : IsSome(cache[i]) => cache'[i] = cache[i]]_vars

\* A worker of a later run is about to store a frame into a slot that a worker
\* of an earlier run has filled in the meantime.
C1_Witness ==
    \E r \in RunIds : \E w \in WorkerIds(r) :
        /\ runs[r].workers[w].pc = "store"
        /\ IsSome(cache[runs[r].workers[w].idx])
        /\ Unwrap(cache[runs[r].workers[w].idx]).by[1] # r

\* C2: at most one preload run is active per store: no worker of an earlier run
\* is still executing while a later run is executing.
C2_OneActiveRun ==
    \A r1, r2 \in RunIds : r1 < r2 => ~(WorkerExecuting(r1) /\ RunExecuting(r2))

AllFilled == \A j \in Frames : IsSome(frame(cache, j))
AllAsDecoded ==
    \A j \in Frames : IsSome(frame(cache, j)) /\ Unwrap(frame(cache, j)).px = PixelsOf(j)

\* C3: with a fully decodable source and fair scheduling, once frame() has been
\* called every index is eventually filled, and from then on frame(j) returns the
\* pixels of frame j of the source, whichever worker wrote them.
C3_EventuallyAllFrames == (runs # <<>>) ~> [](AllFilled /\ AllAsDecoded)

\* Every slot is filled, by more than one worker.
C3_Witness ==
    /\ AllFilled
    /\ \E i, j \in Frames : i # 0 /\ j # 0 /\ Unwrap(cache[i]).by # Unwrap(cache[j]).by

\* C4: a run with a failed worker ends failed and resets preload_started, and the
\* next frame() call then starts a fresh run; a run whose workers all succeed
\* leaves the flag set, and no later frame() call starts another run.
C4_RunOutcome ==
    \A r \in RunIds :
        /\ runs[r].status = "failed" => \E w \in WorkerIds(r) : runs[r].workers[w].pc = "err"
        /\ runs[r].status = "ok" =>
              /\ \A w \in WorkerIds(r) : runs[r].workers[w].pc = "ok"
              /\ preload_started
              /\ r = Len(runs)
        /\ (r = Len(runs) /\ runs[r].status = "failed") => ~preload_started
        /\ (r = Len(runs) /\ runs[r].status \in {"spawned", "running"}) => preload_started
        /\ r < Len(runs) => runs[r].status = "failed"

C4_FrameCallStep ==
    (\E i \in 0 .. FrameCount : FrameCall(i)) =>
        /\ preload_started'
        /\ ~preload_started => Len(runs') = Len(runs) + 1 /\ runs'[Len(runs')].status = "spawned"
        /\ preload_started => runs' = runs

C4_FailedRunRetried == []C4_RunOutcome /\ [][C4_FrameCallStep]_vars

\* A second run was started after the first one failed.
C4_Witness ==
    /\ Len(runs) = 2
    /\ runs[1].status = "failed"
    /\ runs[2].status = "running"

\* C5: frame(i) is absent or exactly the pixels of frame i of the source; a frame
\* whose decode fails never gets data, and an index out of range is absent.
C5_FrameIsAbsentOrExact ==
    \A i \in 0 .. FrameCount + 1 :
        /\ i \notin Frames => frame(cache, i) = None
        /\ i \in badFrames => frame(cache, i) = None
        /\ IsSome(frame(cache, i)) => Unwrap(frame(cache, i)).px = PixelsOf(i)

\* A run has failed on an undecodable frame while another worker filled its slot.
C5_Witness ==
    /\ badFrames # {}
    /\ \E r \in RunIds : \E w \in WorkerIds(r) :
          /\ runs[r].workers[w].pc = "err"
          /\ runs[r].workers[w].idx \in badFrames
    /\ \E i \in Frames : i # 0 /\ IsSome(cache[i])

\* Every worker of run r has ended: with Ok(()), or with an error.
WorkersEnded(r) ==
    /\ runs[r].W > 0
    /\ \A w \in WorkerIds(r) : runs[r].workers[w].pc \in {"ok", "err"}

\* C23: a decode failure in one preload worker aborts only that worker's
\* remaining shard: every other worker of the run still decodes and stores all
\* frames of its own shard, so after the run only indices assigned to the failed
\* worker (from the failing index on) can still be empty.
C23_FailureAbortsOnlyOwnShard ==
    \A r \in RunIds :
        /\ \A w \in WorkerIds(r) :
              runs[r].workers[w].pc = "ok" =>
                  \A i \in Frames : i % runs[r].W = w => cache[i] # None
        /\ WorkersEnded(r) =>
              \A i \in Frames :
                  cache[i] = None =>
                      LET w == i % runs[r].W
                      IN  runs[r].workers[w].pc = "err" /\ runs[r].workers[w].idx <= i

\* A run of two workers has ended: the one whose frame does not decode failed
\* at it, the other one filled its shard.
C23_Witness ==
    \E r \in RunIds :
        /\ WorkersEnded(r)
        /\ runs[r].W = 2
        /\ badFrames = {1}
        /\ ~reopenFaults
        /\ runs[r].workers[1].pc = "err"
        /\ runs[r].workers[0].pc = "ok"
        /\ cache[1] = None
        /\ cache[2] # None

----------------------------------------------------------------------------
\* Meta-Header Repair: the bytes.

\* Bounds of the files explored.
MaxElems == 3
MaxCut == 13

\* bytes[i] of the 0-based Rust slice.
At(bytes, i) == bytes[i + 1]
\* &bytes[from..to]
Slice(bytes, from, to) == SubSeq(bytes, from + 1, to)

u16_from_le_bytes(b0, b1) == b0 + 256 * b1
u32_from_le_bytes(b0, b1, b2, b3) == b0 + 256 * b1 + 65536 * b2 + 16777216 * b3
u32_to_le_bytes(n) ==
    <<n % 256, (n \div 256) % 256, (n \div 65536) % 256, (n \div 16777216) % 256>>

\* b"DICM"
MAGIC == <<68, 73, 67, 77>>

Zeros(n) == [i \in 1 .. n |-> 0]

\* The elements a file is built from, in explicit VR little endian.
ChunkNames == {"GL", "UI", "OB", "OW", "UD", "DS"}
ChunkBytes(c) ==
    CASE c = "GL" -> <<2, 0, 0, 0, 85, 76, 4, 0, 8, 0, 0, 0>>          \* (0002,0000) UL 4
      [] c = "UI" -> <<2, 0, 2, 0, 85, 73, 4, 0, 65, 66, 67, 68>>      \* (0002,0002) UI 4 "ABCD"
      [] c = "OB" -> <<2, 0, 1, 0, 79, 66, 0, 0, 2, 0, 0, 0, 0, 1>>    \* (0002,0001) OB 2
      [] c = "OW" -> <<2, 0, 2, 1, 79, 87, 0, 0, 2, 0, 0, 0, 7, 7>>    \* (0002,0102) OW 2
      [] c = "UD" -> <<2, 0, 1, 0, 79, 66, 0, 0, 255, 255, 255, 255>>  \* OB, undefined length
      [] c = "DS" -> <<8, 0, 22, 0, 85, 73, 2, 0, 49, 0>>              \* (0008,0016) UI 2
      \* (0002,0002) UI 108, the value ending in the letters DICM
      [] c = "DM" -> <<2, 0, 2, 0, 85, 73, 108, 0>> \o Zeros(104) \o MAGIC

PrefixKinds == {"preamble", "bare", "none"}
PrefixBytes(kind) ==
    CASE kind = "preamble" -> Zeros(128) \o MAGIC
      [] kind = "bare" -> MAGIC
      [] kind = "none" -> <<>>

RECURSIVE ConcatChunks(_)
ConcatChunks(elems) ==
    IF elems = <<>> THEN <<>> ELSE ChunkBytes(Head(elems)) \o ConcatChunks(Tail(elems))

\* The file's bytes: prefix, elements, the last `cut` bytes missing.
InputBytes(in) ==
    LET body == ConcatChunks(in.elems)
    IN  PrefixBytes(in.kind) \o SubSeq(body, 1, Len(body) - in.cut)

ElemLists == UNION {[1 .. n -> ChunkNames] : n \in 0 .. MaxElems}
RepairInputs ==
    {in \in [kind : PrefixKinds, elems : ElemLists, cut : 0 .. MaxCut] :
        in.cut <= Len(ConcatChunks(in.elems))}

\* Mutant of detect_dicom_prefix_offset: the bare magic is not recognised.
detect_prefix_preamble_only(bytes) ==
    IF Len(bytes) >= 132 /\ Slice(bytes, 128, 132) = MAGIC THEN Some(132) ELSE None

detect_dicom_prefix_offset(bytes) ==
    IF Len(bytes) >= 132 /\ Slice(bytes, 128, 132) = MAGIC THEN Some(132)
    ELSE IF Len(bytes) >= 4 /\ Slice(bytes, 0, 4) = MAGIC THEN Some(4)
    ELSE None

\* u32::MAX.to_le_bytes(): the one 32-bit length the scan compares with.
U32_MAX_LE == <<255, 255, 255, 255>>

\* The VRs whose header is 12 bytes with a 32-bit length, as ASCII pairs.
LongVRsWithoutOW ==
    { <<79, 66>>, <<79, 68>>, <<79, 70>>, <<79, 76>>,
      <<83, 81>>, <<85, 67>>, <<85, 82>>, <<85, 84>>, <<85, 78>> }

LongVRs ==
    { <<79, 66>>, <<79, 68>>, <<79, 70>>, <<79, 76>>, <<79, 87>>,
      <<83, 81>>, <<85, 67>>, <<85, 82>>, <<85, 84>>, <<85, 78>> }

\* Some(<<header_len, value_len>>) or None.
read_explicit_vr_element_length(bytes, position, vr) ==
    LET uses_u32_len == vr \in LongVRs
    IN  IF uses_u32_len
        THEN IF position + 12 > Len(bytes) THEN None
             ELSE LET le == Slice(bytes, position + 8, position + 12)
                  IN  IF le = U32_MAX_LE THEN None   \* value_len == u32::MAX
                      ELSE Some(<<12, u32_from_le_bytes(le[1], le[2], le[3], le[4])>>)
        ELSE Some(<<8, u16_from_le_bytes(At(bytes, position + 6), At(bytes, position + 7))>>)

\* The while loop of scan_meta_group_len_without_group_length from `position`:
\* Some(the position it stops at) or None.
RECURSIVE ScanLoop(_, _)
ScanLoop(bytes, position) ==
    IF ~(position + 8 <= Len(bytes)) THEN Some(position)
    ELSE LET group == u16_from_le_bytes(At(bytes, position), At(bytes, position + 1))
         IN  IF group # 2 THEN Some(position)
             ELSE LET vr == <<At(bytes, position + 4), At(bytes, position + 5)>>
                      len == read_explicit_vr_element_length(bytes, position, vr)
                  IN  IF len = None THEN None
                      ELSE LET next == position + Unwrap(len)[1] + Unwrap(len)[2]
                           IN  IF next > Len(bytes) THEN None ELSE ScanLoop(bytes, next)

\* Mutant of scan_meta_group_len_without_group_length: no test of next > bytes.len().
RECURSIVE ScanLoopUnchecked(_, _)
ScanLoopUnchecked(bytes, position) ==
    IF ~(position + 8 <= Len(bytes)) THEN Some(position)
    ELSE LET group == u16_from_le_bytes(At(bytes, position), At(bytes, position + 1))
         IN  IF group # 2 THEN Some(position)
             ELSE LET vr == <<At(bytes, position + 4), At(bytes, position + 5)>>
                      len == read_explicit_vr_element_length(bytes, position, vr)
                  IN  IF len = None THEN None
                      ELSE ScanLoopUnchecked(bytes, position + Unwrap(len)[1] + Unwrap(len)[2])

scan_unchecked(bytes, start) ==
    LET position == ScanLoopUnchecked(bytes, start)
    IN  IF position = None THEN None
        ELSE IF Unwrap(position) > start THEN Some(Unwrap(position) - start) ELSE None

scan_meta_group_len_without_group_length(bytes, start) ==
    LET position == ScanLoop(bytes, start)
    IN  IF position = None THEN None
        ELSE IF Unwrap(position) > start THEN Some(Unwrap(position) - start) ELSE None

\* Mutant of build_group_length_element: the value written big-endian.
build_group_length_big_endian(group_len) ==
    <<2, 0, 0, 0, 85, 76, 4, 0>> \o
    <<(group_len \div 16777216) % 256, (group_len \div 65536) % 256,
      (group_len \div 256) % 256, group_len % 256>>

build_group_length_element(group_len) ==
    <<2, 0>> \o <<0, 0>> \o <<85, 76>> \o <<4, 0>> \o u32_to_le_bytes(group_len)

\* Some(repaired bytes) or None.
repair_missing_meta_group_length(bytes) ==
    LET offset == detect_dicom_prefix_offset(bytes)
    IN  IF offset = None THEN None
        ELSE IF Len(bytes) < Unwrap(offset) + 4 THEN None
        ELSE LET o == Unwrap(offset)
                 first_group == u16_from_le_bytes(At(bytes, o), At(bytes, o + 1))
                 first_element == u16_from_le_bytes(At(bytes, o + 2), At(bytes, o + 3))
             IN  IF first_group # 2 \/ first_element = 0 THEN None
                 ELSE LET meta_group_len == scan_meta_group_len_without_group_length(bytes, o)
                      IN  IF meta_group_len = None THEN None
                          \* u32::try_from(meta_group_len) fails only past 4 GiB
                          ELSE Some(Slice(bytes, 0, o)
                                    \o build_group_length_element(Unwrap(meta_group_len))
                                    \o Slice(bytes, o, Len(bytes)))

\* One call of repair_missing_meta_group_length on the file's bytes.
Repair ==
    /\ ~rp.done
    /\ rp' = [done |-> TRUE, out |-> repair_missing_meta_group_length(InputBytes(input))]
    /\ UNCHANGED <<nonRpVars, input, opened>>

FsIdle ==
    /\ cache = InitialCache
    /\ preload_started = FALSE
    /\ runs = <<>>
    /\ badFrames = {}
    /\ reopenFaults = FALSE
    /\ envWorkers = 0
    /\ cpus = 1

RepairInit ==
    /\ input \in RepairInputs
    /\ rp = Pending
    /\ opened = NotOpened
    /\ FsIdle
    /\ LdIdle
    /\ AuxIdle
    /\ HsIdle
    /\ WbIdle

----------------------------------------------------------------------------
\* Object Loader: open_dicom_object.

\* What open_file(path) can answer: the object, or a ReadError.
ParsedOk == [kind |-> "ok", group |-> 0, element |-> 0]
UnexpectedTag(g, e) == [kind |-> "ParseMetaDataSet.UnexpectedTag", group |-> g, element |-> e]
ReadErrors ==
    { UnexpectedTag(2, 2), UnexpectedTag(2, 16), UnexpectedTag(2, 0), UnexpectedTag(8, 22),
      [kind |-> "ParseMetaDataSet.NotDicom", group |-> 0, element |-> 0],
      [kind |-> "OpenFile", group |-> 0, element |-> 0] }
ReparseError == [kind |-> "from_reader", group |-> 0, element |-> 0]
IoError == [kind |-> "fs::read", group |-> 0, element |-> 0]

\* Mutant of is_missing_meta_group_length_error: any unexpected tag.
is_any_unexpected_tag_error(error) == error.kind = "ParseMetaDataSet.UnexpectedTag"

is_missing_meta_group_length_error(error) ==
    /\ error.kind = "ParseMetaDataSet.UnexpectedTag"
    /\ error.group = 2 /\ error.element # 0

\* Result<DefaultDicomObject>: the object and the bytes it was parsed from, or the
\* error and the context attached to it; `repairs` counts the calls of repair.
OpenOk(from, repairs) ==
    [ok |-> TRUE, obj |-> from, err |-> NoError, context |-> "", repairs |-> repairs]
OpenErr(error, context, repairs) ==
    [ok |-> FALSE, obj |-> "none", err |-> error, context |-> context, repairs |-> repairs]

\* open_dicom_object on a file with these bytes, when open_file answers `parse`,
\* fs::read succeeds or not, and from_reader accepts the repaired bytes or not.
open_dicom_object(bytes, parse, read_ok, reparse_ok) ==
    IF parse = ParsedOk THEN OpenOk("original", 0)
    ELSE IF ~is_missing_meta_group_length_error(parse)
         THEN OpenErr(parse, "Could not open {path}", 0)
    ELSE IF ~read_ok THEN OpenErr(IoError, "Could not read {path}", 0)
    ELSE LET repaired == repair_missing_meta_group_length(bytes)
         IN  IF IsSome(repaired)
             THEN IF reparse_ok THEN OpenOk("patched", 1)
                  ELSE OpenErr(ReparseError, "Could not open {path} after repairing", 1)
             ELSE OpenErr(parse, "Could not open {path}", 1)

OpenDicomObject ==
    /\ ~opened.done
    /\ \E parse \in {ParsedOk} \cup ReadErrors, read_ok \in BOOLEAN, reparse_ok \in BOOLEAN :
         opened' = [done |-> TRUE, parse |-> parse,
                    out |-> Some(open_dicom_object(InputBytes(input), parse, read_ok, reparse_ok))]
    /\ UNCHANGED <<nonRpVars, input, rp>>

\* The files opened: whole, or with their end cut off.
OpenInputs == {in \in RepairInputs : in.cut \in {0, MaxCut}}

OpenInit ==
    /\ input \in OpenInputs
    /\ rp = Pending
    /\ opened = NotOpened
    /\ FsIdle
    /\ LdIdle
    /\ AuxIdle
    /\ HsIdle
    /\ WbIdle

OpenNext == OpenDicomObject

SpecOpen == OpenInit /\ [][OpenNext]_vars

RepairNext == Repair

SpecRepair == RepairInit /\ [][RepairNext]_vars

----------------------------------------------------------------------------
\* Meta-Header Repair: what a file is, read off the elements it was built from
\* (never off its bytes), and the claims.

ChunkLen(c) == Len(ChunkBytes(c))
ChunkInGroup2(c) == c # "DS"
ChunkHeaderLen(c) == IF c \in {"OB", "OW", "UD"} THEN 12 ELSE 8
ChunkUndefinedLength(c) == c = "UD"

RECURSIVE SumLen(_, _)
SumLen(elems, n) == IF n = 0 THEN 0 ELSE ChunkLen(elems[n]) + SumLen(elems, n - 1)

\* The bytes of the file after its prefix.
Avail(in) == SumLen(in.elems, Len(in.elems)) - in.cut
PrefixEnd(in) == Len(PrefixBytes(in.kind))
HasPrefix(in) == in.kind # "none"
FirstTagPresent(in) == in.elems # <<>> /\ Avail(in) >= 4

\* The first n elements are in group 2, of defined length and wholly in the file.
WholeGroup2(in, n) ==
    \A j \in 1 .. n :
        /\ ChunkInGroup2(in.elems[j])
        /\ ~ChunkUndefinedLength(in.elems[j])
        /\ SumLen(in.elems, j) <= Avail(in)
WholeRunLen(in) ==
    CHOOSE n \in 0 .. Len(in.elems) :
        WholeGroup2(in, n) /\ \A m \in n + 1 .. Len(in.elems) : ~WholeGroup2(in, m)
\* The byte span of the whole group-2 elements that follow the prefix.
GroupSpan(in) == SumLen(in.elems, WholeRunLen(in))
\* What follows them: so many bytes, of the element Stopper (if any byte does).
Rest(in) == Avail(in) - GroupSpan(in)
HasStopper(in) == Rest(in) > 0
Stopper(in) == in.elems[WholeRunLen(in) + 1]

GroupLengthFirst(in) == HasPrefix(in) /\ FirstTagPresent(in) /\ in.elems[1] = "GL"
\* The scan is reached: a prefix, then a group-2 tag other than (0002,0000).
Scanned(in) ==
    HasPrefix(in) /\ FirstTagPresent(in) /\ ChunkInGroup2(in.elems[1]) /\ in.elems[1] # "GL"
\* A group-2 element of the run is cut by the end of the file, in its header or in its value.
HeaderTruncated(in) ==
    HasStopper(in) /\ ChunkInGroup2(Stopper(in)) /\ Rest(in) < ChunkHeaderLen(Stopper(in))
ValueTruncated(in) ==
    /\ HasStopper(in) /\ ChunkInGroup2(Stopper(in)) /\ ~ChunkUndefinedLength(Stopper(in))
    /\ Rest(in) >= ChunkHeaderLen(Stopper(in))
    /\ Rest(in) < ChunkLen(Stopper(in))
UndefinedLength(in) ==
    HasStopper(in) /\ ChunkUndefinedLength(Stopper(in)) /\ Rest(in) >= ChunkHeaderLen(Stopper(in))
\* The run of group-2 elements goes to the end of the file: no other tag follows it.
Unterminated(in) == \A k \in 1 .. Len(in.elems) : ChunkInGroup2(in.elems[k])

\* C6, as claimed: repair returns None exactly when (0002,0000) is already the
\* first File Meta element, and a patched buffer for every other input.
C6_NoopExactlyWhenGroupLengthPresent ==
    rp.done => (rp.out = None <=> GroupLengthFirst(input))

\* C6, amended: repair returns None when (0002,0000) is already the first File
\* Meta element, and also when there is no DICM prefix, when no tag or a tag of
\* another group follows the prefix, and when the group-2 run cannot be scanned
\* (no whole element, or a group-2 element with 8 or more of its bytes in the file
\* that is cut off or of undefined length); for every other input it returns a
\* patched buffer.
C6_NoopWhenGroupLengthPresentOrUnparsable ==
    rp.done =>
        (rp.out = None <=>
            \/ GroupLengthFirst(input)
            \/ ~HasPrefix(input)
            \/ ~FirstTagPresent(input)
            \/ ~ChunkInGroup2(input.elems[1])
            \/ WholeRunLen(input) = 0
            \/ (HasStopper(input) /\ ChunkInGroup2(Stopper(input)) /\ Rest(input) >= 8))

\* repair has run on a file that starts with the preamble and (0002,0000).
C6_Witness ==
    /\ rp.done /\ rp.out = None
    /\ input.kind = "preamble" /\ GroupLengthFirst(input) /\ input.cut = 0
    /\ Len(input.elems) >= 2

\* C7: a buffer returned by repair is the input with, right after the DICM prefix
\* (at 132, or at 4 for a bare magic), the 12 bytes of (0002,0000) UL 4 whose
\* little-endian value is the byte span of the group-2 elements that follow: 12
\* bytes longer, every original byte kept in order.
C7_PatchIsInputPlusGroupLength ==
    (rp.done /\ IsSome(rp.out)) =>
        LET b == InputBytes(input)
            o == Unwrap(rp.out)
            p == PrefixEnd(input)
        IN  /\ p = (IF input.kind = "bare" THEN 4 ELSE 132)
            /\ Len(o) = Len(b) + 12
            /\ SubSeq(o, 1, p) = SubSeq(b, 1, p)
            /\ SubSeq(o, p + 13, Len(o)) = SubSeq(b, p + 1, Len(b))
            /\ SubSeq(o, p + 1, p + 8) = <<2, 0, 0, 0, 85, 76, 4, 0>>
            /\ o[p + 9] + 256 * o[p + 10] + 65536 * o[p + 11] + 16777216 * o[p + 12]
                 = GroupSpan(input)

\* repair has patched a file with a preamble and a run of several elements, one
\* of them with a 12-byte header, followed by the data set.
C7_Witness ==
    /\ rp.done /\ IsSome(rp.out)
    /\ input.kind = "preamble"
    /\ WholeRunLen(input) >= 2
    /\ \E k \in 1 .. WholeRunLen(input) : input.elems[k] = "OB"
    /\ HasStopper(input) /\ ~ChunkInGroup2(Stopper(input))

\* C8, as claimed: repair returns None when an element header or value is cut
\* off by the end of the buffer, and when the group-2 run reaches the end of the
\* buffer with no other tag after it.
C8_NoneWhenTruncatedOrUnterminated ==
    (rp.done /\ Scanned(input)) =>
        ((HeaderTruncated(input) \/ ValueTruncated(input) \/ Unterminated(input))
            => rp.out = None)

\* C8, amended: repair returns None when the value of a group-2 element is cut
\* off by the end of the buffer, when its header is cut off with 8 or more of its
\* bytes left, when its 32-bit length is undefined, and when no whole element
\* follows the prefix; after one whole element or more, a run that goes to the
\* end of the buffer, or that is followed by fewer than 8 bytes, is taken as
\* ended and repair returns a patched buffer.
C8_NoneWhenCutInsideElement ==
    (rp.done /\ Scanned(input)) =>
        /\ ValueTruncated(input) => rp.out = None
        /\ (HeaderTruncated(input) /\ Rest(input) >= 8) => rp.out = None
        /\ UndefinedLength(input) => rp.out = None
        /\ WholeRunLen(input) = 0 => rp.out = None
        /\ (WholeRunLen(input) >= 1 /\ Rest(input) < 8) => IsSome(rp.out)

\* repair has run on a file whose second element is cut inside its value.
C8_Witness ==
    /\ rp.done /\ rp.out = None
    /\ Scanned(input) /\ ValueTruncated(input)
    /\ WholeRunLen(input) >= 1

\* repair returns a patched buffer for this file.
Patchable(in) ==
    /\ Scanned(in)
    /\ WholeRunLen(in) >= 1
    /\ ~(HasStopper(in) /\ ChunkInGroup2(Stopper(in)) /\ Rest(in) >= 8)

\* C9: open_dicom_object calls repair at most once, and only when the standard
\* parse failed with the unexpected-tag error for a group-0x0002 tag whose element
\* is not 0x0000; on any other parse failure, or when repair returns None, it
\* returns the original parse error with the path attached, and no object built
\* from patched bytes.
C9_RepairOnlyOnMissingGroupLength ==
    opened.done =>
        LET e == opened.parse
            r == Unwrap(opened.out)
            missing == e.kind = "ParseMetaDataSet.UnexpectedTag" /\ e.group = 2 /\ e.element # 0
        IN  /\ r.repairs <= 1
            /\ r.repairs = 1 => missing
            /\ r.obj = "patched" => (missing /\ Patchable(input))
            /\ (e # ParsedOk /\ (~missing \/ (r.repairs = 1 /\ ~Patchable(input)))) =>
                  r = [ok |-> FALSE, obj |-> "none", err |-> e,
                       context |-> "Could not open {path}", repairs |-> r.repairs]

\* The parse failed for a missing group length, repair was tried and found
\* nothing to patch, and the original error came back.
C9_Witness ==
    /\ opened.done
    /\ opened.parse = UnexpectedTag(2, 2)
    /\ Unwrap(opened.out).repairs = 1
    /\ ~Patchable(input)
    /\ Unwrap(opened.out).err = opened.parse

----------------------------------------------------------------------------
\* load_dicom: the frame count and the store it builds.

\* Bound: the largest NumberOfFrames explored.
MaxFrames == 11

\* Text is a sequence of characters.
Digits == <<"0", "1", "2", "3", "4", "5", "6", "7", "8", "9">>
IsDigit(ch) == \E d \in 1 .. 10 : Digits[d] = ch
DigitValue(ch) == (CHOOSE d \in 1 .. 10 : Digits[d] = ch) - 1

\* The decimal text of n, as a DICOM IS value is written.
RECURSIVE NatText(_)
NatText(n) == IF n < 10 THEN <<Digits[n + 1]>> ELSE NatText(n \div 10) \o <<Digits[(n % 10) + 1]>>
IntText(n) == IF n < 0 THEN <<"-">> \o NatText(-n) ELSE NatText(n)
StyledText(n, style) ==
    CASE style = "plain" -> IntText(n)
      [] style = "padded" -> <<" ">> \o IntText(n) \o <<" ">>
      [] style = "plus" -> <<"+">> \o IntText(n)
      [] style = "multi" -> IntText(n) \o <<"\\", "7">>

\* value.split('\\').next()
RECURSIVE split_first(_)
split_first(value) ==
    IF value = <<>> \/ Head(value) = "\\" THEN <<>>
    ELSE <<Head(value)>> \o split_first(Tail(value))

\* str::trim
RECURSIVE trim_start(_)
trim_start(v) == IF v # <<>> /\ Head(v) = " " THEN trim_start(Tail(v)) ELSE v
RECURSIVE trim_end(_)
trim_end(v) == IF v # <<>> /\ v[Len(v)] = " " THEN trim_end(SubSeq(v, 1, Len(v) - 1)) ELSE v
trim(v) == trim_end(trim_start(v))

\* The value of a run of digits, or -1 past i32::MAX.
RECURSIVE DigitsValue(_)
DigitsValue(v) ==
    IF v = <<>> THEN 0
    ELSE LET hi == DigitsValue(SubSeq(v, 1, Len(v) - 1))
             d == DigitValue(v[Len(v)])
         IN  IF hi < 0 \/ hi > 214748364 \/ (hi = 214748364 /\ d > 7) THEN -1
             ELSE hi * 10 + d

\* str::parse::<i32>: an optional sign and one digit or more; Some(n) or None.
parse_i32(v) ==
    LET signed == v # <<>> /\ Head(v) \in {"+", "-"}
        digits == IF signed THEN Tail(v) ELSE v
    IN  IF digits = <<>> \/ \E k \in 1 .. Len(digits) : ~IsDigit(digits[k]) THEN None
        ELSE IF DigitsValue(digits) < 0 THEN None
        ELSE Some(IF signed /\ Head(v) = "-" THEN -DigitsValue(digits) ELSE DigitsValue(digits))

\* read_int_first(&obj, name), given the element of that name.
read_int_first(tag) ==
    IF ~tag.present THEN None ELSE parse_i32(trim(split_first(tag.text)))

\* Mutant of frame_count_of: zero frames are let through.
frame_count_allowing_zero(number_of_frames) ==
    IF number_of_frames = None THEN <<"Ok", 1>>
    ELSE IF Unwrap(number_of_frames) >= 0 THEN <<"Ok", Unwrap(number_of_frames)>>
    ELSE <<"Err", "Invalid NumberOfFrames (must be >= 1)">>

\* let frame_count = match read_int_first(&obj, "NumberOfFrames") { .. }:
\* <<"Ok", n>> or <<"Err", message>>.
frame_count_of(number_of_frames) ==
    IF number_of_frames = None THEN <<"Ok", 1>>
    ELSE IF Unwrap(number_of_frames) > 0 THEN <<"Ok", Unwrap(number_of_frames)>>
    ELSE <<"Err", "Invalid NumberOfFrames (must be >= 1)">>

\* Mutant of min_max: the search starts from zero, not from the first value.
RECURSIVE min_max_from_zero(_)
min_max_from_zero(values) ==
    IF values = <<>> THEN None
    ELSE IF Len(values) = 1 THEN Some(<<Min(0, values[1]), Max(0, values[1])>>)
    ELSE LET rest == Unwrap(min_max_from_zero(SubSeq(values, 1, Len(values) - 1)))
             v == values[Len(values)]
         IN  Some(<<Min(rest[1], v), Max(rest[2], v)>>)

\* min_max(values): None without a value, else the least and the greatest.
RECURSIVE min_max(_)
min_max(values) ==
    IF values = <<>> THEN None
    ELSE IF Len(values) = 1 THEN Some(<<values[1], values[1]>>)
    ELSE LET rest == Unwrap(min_max(SubSeq(values, 1, Len(values) - 1)))
             v == values[Len(values)]
         IN  Some(<<IF v < rest[1] THEN v ELSE rest[1], IF v > rest[2] THEN v ELSE rest[2]>>)

\* The rendering defaults of a DicomImage. window_center is kept doubled, so
\* that the half of (min_value + max_value) stays a whole number.
NoWindow == [min_value |-> 0, max_value |-> 0, window_center_x2 |-> 0, window_width |-> 0]
MonoWindow(d, range) ==
    LET min_value == range[1]
        max_value == range[2]
        default_center_x2 == IF d.WindowCenter = None THEN min_value + max_value
                             ELSE 2 * Unwrap(d.WindowCenter)
        default_width == IF d.WindowWidth = None THEN Max(max_value - min_value, 1)
                         ELSE Unwrap(d.WindowWidth)
    IN  [min_value |-> min_value, max_value |-> max_value,
         window_center_x2 |-> default_center_x2, window_width |-> Max(default_width, 1)]
RgbWindow == [min_value |-> 0, max_value |-> 255, window_center_x2 |-> 255, window_width |-> 255]

LoadErr(message) ==
    [ok |-> FALSE, err |-> message, frame_count |-> 0, color_mode |-> "none",
     store |-> "none", frames |-> <<>>, preload_started |-> FALSE, window |-> NoWindow]
LoadOk(frame_count, color_mode, window) ==
    [ok |-> TRUE, err |-> "", frame_count |-> frame_count, color_mode |-> color_mode,
     store |-> IF frame_count = 1 THEN "Eager" ELSE "Lazy",
     frames |-> NewLazyCache(frame_count), preload_started |-> FALSE, window |-> window]

\* load_dicom on the file d.
load_dicom(d) ==
    IF d.fault = "open" THEN LoadErr("Could not open {path}")
    ELSE IF d.fault = "columns" THEN LoadErr("Missing Columns tag")
    ELSE IF d.fault = "rows" THEN LoadErr("Missing Rows tag")
    ELSE IF d.fault = "decode" THEN LoadErr("Failed to decode PixelData frame 0")
    ELSE IF d.fault = "dims" THEN LoadErr("Decoded frame dimensions mismatch")
    ELSE LET frame_count == frame_count_of(read_int_first(d.NumberOfFrames))
         IN  IF frame_count[1] = "Err" THEN LoadErr(frame_count[2])
             ELSE IF d.samples_per_pixel = 1 \/ d.samples_per_pixel >= 3
             THEN IF d.bits_allocated # 8 /\ d.bits_allocated # 16
                  THEN LoadErr("BitsAllocated is not supported (only 8/16)")
                  ELSE IF d.late = "convert" THEN LoadErr("Could not convert decoded frame 0")
                  ELSE IF d.late = "count" THEN LoadErr("Decoded pixel count mismatch in frame 0")
                  ELSE IF d.samples_per_pixel = 1
                  THEN LET range == min_max(d.first_frame_pixels)
                       IN  IF range = None THEN LoadErr("No pixels available for rendering")
                           ELSE LoadOk(frame_count[2], "Monochrome", MonoWindow(d, Unwrap(range)))
                  ELSE LoadOk(frame_count[2], "Rgb", RgbWindow)
             ELSE LoadErr("Unsupported SamplesPerPixel")

LoadDicom ==
    /\ ~image.done
    /\ image' = [done |-> TRUE, out |-> Some(load_dicom(dcm))]
    /\ UNCHANGED <<nonLdVars, dcm>>

\* The NumberOfFrames elements explored: none, an integer in one of the ways an IS
\* value is written, or text that is no integer.
IntTags ==
    {[present |-> TRUE, kind |-> "int", n |-> n, style |-> st, text |-> StyledText(n, st)] :
        n \in -2 .. MaxFrames, st \in {"plain", "padded", "multi"}}
    \cup {[present |-> TRUE, kind |-> "int", n |-> n, style |-> "plus", text |-> StyledText(n, "plus")] :
        n \in 0 .. MaxFrames}
JunkTexts ==
    { <<>>, <<" ">>, <<"x">>, <<"2", "x">>, <<"-">>, <<"\\", "2">>, <<"2", " ", "3">>,
      <<"2", "1", "4", "7", "4", "8", "3", "6", "4", "8">> }
JunkTags ==
    {[present |-> TRUE, kind |-> "junk", n |-> 0, style |-> "plain", text |-> t] : t \in JunkTexts}
LoadInputs ==
    [fault : {"none", "open", "columns", "rows", "decode", "dims"},
     NumberOfFrames : {NoTag} \cup IntTags \cup JunkTags,
     samples_per_pixel : {1, 2, 3},
     bits_allocated : {8, 12, 16},
     late : {"none", "convert", "count"},
     first_frame_pixels : {<<100>>},
     WindowCenter : {None},
     WindowWidth : {None}]

LoadInit ==
    /\ dcm \in LoadInputs
    /\ image = Pending
    /\ FsIdle
    /\ RpIdle
    /\ AuxIdle
    /\ HsIdle
    /\ WbIdle

LoadNext == LoadDicom

SpecLoad == LoadInit /\ [][LoadNext]_vars

\* C10: frame_count is the value of NumberOfFrames when the tag is present with a
\* value >= 1, and 1 when the tag is absent; a value < 1 is an error and no
\* DicomImage; so every DicomImage has frame_count >= 1.
C10_FrameCountFromNumberOfFrames ==
    image.done =>
        LET r == Unwrap(image.out)
            tag == dcm.NumberOfFrames
        IN  /\ r.ok => r.frame_count >= 1
            /\ (r.ok /\ ~tag.present) => r.frame_count = 1
            /\ (r.ok /\ tag.present /\ tag.kind = "int" /\ tag.n >= 1) => r.frame_count = tag.n
            /\ (tag.present /\ tag.kind = "int" /\ tag.n < 1) =>
                  /\ ~r.ok
                  /\ dcm.fault = "none" => r.err = "Invalid NumberOfFrames (must be >= 1)"
            /\ (dcm.fault = "none" /\ dcm.samples_per_pixel # 2 /\ dcm.bits_allocated # 12
                  /\ dcm.late = "none" /\ (tag.present /\ tag.kind = "int" => tag.n >= 1)) => r.ok

\* A multi-valued, two-digit NumberOfFrames was loaded into a lazy store.
C10_Witness ==
    /\ image.done
    /\ Unwrap(image.out).ok
    /\ dcm.NumberOfFrames.style = "multi"
    /\ dcm.NumberOfFrames.n >= 10
    /\ Unwrap(image.out).frame_count = dcm.NumberOfFrames.n
    /\ Unwrap(image.out).store = "Lazy"

----------------------------------------------------------------------------
\* The workers of a preload run and their shards (dicom.rs).

\* Bound: the most frames of the stores explored.
MaxShardFrames == 40

\* str::parse::<usize>: an optional plus sign and one digit or more.
parse_usize(v) == IF v # <<>> /\ Head(v) = "-" THEN None ELSE parse_i32(v)

\* The closure of configured_preload_workers, given the variable (None: not set).
configured_workers_from(env) ==
    IF env = None THEN None
    ELSE LET value == parse_usize(trim(Unwrap(env)))
         IN  IF value = None \/ Unwrap(value) = 0 THEN None ELSE value

\* (worker_id..frame_count).step_by(worker_count), from idx on.
RECURSIVE ShardFrom(_, _, _)
ShardFrom(idx, worker_count, frame_count) ==
    IF idx >= frame_count THEN <<>>
    ELSE <<idx>> \o ShardFrom(ShardNext(idx, worker_count), worker_count, frame_count)

\* preload_mono_frames_from_path up to the spawning of its workers: the number
\* of workers, and the indices each of them goes through.
PlanPreload ==
    /\ ~preload_plan.done
    /\ LET frame_count == preload_input.frame_count
           worker_count == worker_count_for(configured_workers_from(preload_input.env),
                                            preload_input.parallelism, frame_count)
       IN  preload_plan' =
               [done |-> TRUE,
                out |-> Some(IF frame_count <= 1 THEN [worker_count |-> 0, shards |-> <<>>]
                             ELSE [worker_count |-> worker_count,
                                   shards |-> [k \in 1 .. worker_count |->
                                                  ShardFrom(k - 1, worker_count, frame_count)]])]
    /\ UNCHANGED <<preload_input, nonPpVars>>

\* The settings of PERSPECTA_PRELOAD_WORKERS, the answers of
\* available_parallelism() (0: none) and the frame counts explored.
WorkerEnvs ==
    {None} \cup {Some(t) : t \in { <<>>, <<"0">>, <<"1">>, <<" ", "3", " ">>, <<"+", "2">>, <<"-", "1">>,
                                    <<"x">>, <<"8">>, <<"3", "2">>, <<"3", "3">>, <<"4", "0">> }}
Parallelisms == {0, 1, 2, 3, 4, 8, 64}
PreloadInputs == [env : WorkerEnvs, parallelism : Parallelisms, frame_count : 1 .. MaxShardFrames]

NonPpIdle == FsIdle /\ RpIdle /\ LdIdle /\ ElIdle /\ JsIdle /\ LqIdle /\ UiIdle /\ HsIdle /\ WbIdle

PlanInit ==
    /\ preload_input \in PreloadInputs
    /\ preload_plan = Pending
    /\ NonPpIdle

PlanNext == PlanPreload

SpecPlan == PlanInit /\ [][PlanNext]_vars

\* The setting as a number, when it is one and not zero.
SettingOf(env) ==
    CASE env = Some(<<"1">>) -> Some(1)
      [] env = Some(<<" ", "3", " ">>) -> Some(3)
      [] env = Some(<<"+", "2">>) -> Some(2)
      [] env = Some(<<"8">>) -> Some(8)
      [] env = Some(<<"3", "2">>) -> Some(32)
      [] env = Some(<<"3", "3">>) -> Some(33)
      [] env = Some(<<"4", "0">>) -> Some(40)
      [] OTHER -> None
\* Worker w of W is assigned exactly the indices congruent to w modulo W.
RoundRobin(plan, frame_count) ==
    LET W == plan.worker_count
    IN  /\ \A k \in 1 .. W :
              /\ {plan.shards[k][n] : n \in 1 .. Len(plan.shards[k])}
                    = {i \in 0 .. frame_count - 1 : i % W = k - 1}
              /\ \A n \in 1 .. Len(plan.shards[k]) - 1 : plan.shards[k][n] < plan.shards[k][n + 1]
        /\ \A i \in 0 .. frame_count - 1 :
              Cardinality({k \in 1 .. W : \E n \in 1 .. Len(plan.shards[k]) : plan.shards[k][n] = i}) = 1

\* What the code does for C24: the auto-detected parallelism is first clamped
\* to 1..4 (2 when it cannot be detected), then the configured or auto-detected
\* number is clamped to 1..min(32, frame_count); the shards are round-robin.
C24_WorkersAndShards ==
    (preload_plan.done /\ preload_input.frame_count > 1) =>
        LET plan == Unwrap(preload_plan.out)
            frame_count == preload_input.frame_count
            detected == IF preload_input.parallelism = 0 THEN 2 ELSE preload_input.parallelism
            wanted == IF SettingOf(preload_input.env) # None THEN Unwrap(SettingOf(preload_input.env))
                      ELSE clamp(detected, 1, 4)
        IN  /\ plan.worker_count >= 1
            /\ plan.worker_count <= Min(32, frame_count)
            /\ plan.worker_count = clamp(wanted, 1, Min(32, frame_count))
            /\ RoundRobin(plan, frame_count)

\* Eight processors, no setting, ten frames: four workers, the last two of them
\* with two frames each.
C24_Witness ==
    /\ preload_plan.done
    /\ preload_input = [env |-> None, parallelism |-> 8, frame_count |-> 10]
    /\ Unwrap(preload_plan.out).worker_count = 4
    /\ Unwrap(preload_plan.out).shards[4] = <<3, 7>>

\* C24: a preload run uses W workers with 1 <= W <= min(32, frame_count), where
\* W is the configured (PERSPECTA_PRELOAD_WORKERS, ignored when 0 or unparsable)
\* or auto-detected parallelism clamped to that range; worker w is assigned
\* exactly the indices congruent to w modulo W, so every index
\* 0..frame_count-1 is assigned to exactly one worker.
C24_WorkerCountAndRoundRobin ==
    (preload_plan.done /\ preload_input.frame_count > 1 /\ preload_input.parallelism > 0) =>
        LET plan == Unwrap(preload_plan.out)
            frame_count == preload_input.frame_count
            wanted == IF SettingOf(preload_input.env) # None THEN Unwrap(SettingOf(preload_input.env))
                      ELSE preload_input.parallelism
        IN  /\ plan.worker_count >= 1
            /\ plan.worker_count <= Min(32, frame_count)
            /\ plan.worker_count = clamp(wanted, 1, Min(32, frame_count))
            /\ RoundRobin(plan, frame_count)

----------------------------------------------------------------------------
\* A DicomImage from load_dicom to its frames: the image is loaded, its frames
\* are asked for, and the preload runs of its lazy store go on (dicom.rs).

\* load_dicom(path), the image kept by the caller: a lazy store is the cache
\* that frame() and the preload runs share.
LoadImage ==
    /\ ~image.done
    /\ LET r == load_dicom(dcm)
       IN  /\ image' = [done |-> TRUE, out |-> Some(r)]
           /\ IF r.ok /\ r.store = "Lazy"
              THEN cache' = r.frames /\ preload_started' = r.preload_started
              ELSE UNCHANGED <<cache, preload_started>>
    /\ UNCHANGED <<dcm, runs, badFrames, reopenFaults, envWorkers, cpus, rpVars, auxVars, wbVars>>

\* DicomImage::frame_mono_pixels / frame_rgb_pixels: an eager store answers
\* from its vector, a lazy one through LazyMonoFrames::frame.
FramePixels(i) ==
    /\ image.done
    /\ Unwrap(image.out).ok
    /\ IF Unwrap(image.out).store = "Lazy" THEN FrameCall(i) ELSE UNCHANGED vars

\* The images explored: one to FrameCount frames, monochrome or colour, with a
\* first frame of no, one or two samples, with and without window tags.
ImageInputs ==
    [fault : {"none"},
     NumberOfFrames : {NoTag} \cup
        {[present |-> TRUE, kind |-> "int", n |-> n, style |-> "plain", text |-> StyledText(n, "plain")] :
            n \in 1 .. FrameCount},
     samples_per_pixel : {1, 3},
     bits_allocated : {8},
     late : {"none"},
     first_frame_pixels : {<<>>, <<7>>, <<-3, 7>>, <<7, -3>>, <<5, 9, 5>>},
     WindowCenter : {None, Some(40)},
     WindowWidth : {None, Some(0)}]

ImageInit ==
    /\ dcm \in ImageInputs
    /\ image = Pending
    /\ cache = <<>>
    /\ preload_started = FALSE
    /\ runs = <<>>
    /\ badFrames \in {{}, {1}}
    /\ reopenFaults = FALSE
    /\ envWorkers = 0
    /\ cpus = 2
    /\ RpIdle
    /\ AuxIdle
    /\ HsIdle
    /\ WbIdle

ImageNext ==
    \/ LoadImage
    \/ \E i \in 0 .. FrameCount : FramePixels(i)
    \/ BackgroundStep

SpecImage == ImageInit /\ [][ImageNext]_vars

Loaded == image.done /\ Unwrap(image.out).ok
TheImage == Unwrap(image.out)

\* C25: immediately after a successful load_dicom: with frame_count = 1 the
\* store is eager and complete (frame(0) present, no background thread is ever
\* started for it); with frame_count > 1 the store has exactly frame_count
\* slots, slot 0 filled, every other slot empty, and preload_started = false
\* until the first frame() call.
C25_StoreAfterLoad ==
    Loaded =>
        /\ TheImage.frame_count = 1 =>
              /\ TheImage.store = "Eager"
              /\ DOMAIN TheImage.frames = {0}
              /\ TheImage.frames[0] # None
              /\ runs = <<>>
              /\ ~preload_started
        /\ TheImage.frame_count > 1 =>
              /\ TheImage.store = "Lazy"
              /\ DOMAIN cache = 0 .. TheImage.frame_count - 1
              /\ cache[0] # None
              /\ runs = <<>> =>
                    /\ ~preload_started
                    /\ \A i \in 1 .. TheImage.frame_count - 1 : cache[i] = None
              /\ runs # <<>> => preload_started \/ \E r \in RunIds : runs[r].status = "failed"

\* A three-frame image right after load_dicom, before any frame() call.
C25_Witness ==
    /\ Loaded
    /\ TheImage.frame_count = 3
    /\ runs = <<>>
    /\ cache[0] # None
    /\ cache[1] = None
    /\ cache[2] = None

\* The least and the greatest sample of frame 0.
LeastOf(values) == CHOOSE v \in {values[k] : k \in 1 .. Len(values)} : \A k \in 1 .. Len(values) : v <= values[k]
GreatestOf(values) == CHOOSE v \in {values[k] : k \in 1 .. Len(values)} : \A k \in 1 .. Len(values) : v >= values[k]
RenderingFromFrameZero ==
    Loaded =>
        /\ TheImage.color_mode = (IF dcm.samples_per_pixel = 1 THEN "Monochrome" ELSE "Rgb")
        /\ TheImage.color_mode = "Monochrome" =>
              /\ TheImage.window.min_value = LeastOf(dcm.first_frame_pixels)
              /\ TheImage.window.max_value = GreatestOf(dcm.first_frame_pixels)
              /\ TheImage.window.min_value <= TheImage.window.max_value
              /\ TheImage.window.window_center_x2 =
                    (IF dcm.WindowCenter = None
                     THEN TheImage.window.min_value + TheImage.window.max_value ELSE 80)
              /\ TheImage.window.window_width =
                    (IF dcm.WindowWidth # None \/ TheImage.window.max_value = TheImage.window.min_value
                     THEN 1 ELSE TheImage.window.max_value - TheImage.window.min_value)
        /\ TheImage.color_mode = "Rgb" =>
              TheImage.window = [min_value |-> 0, max_value |-> 255,
                                 window_center_x2 |-> 255, window_width |-> 255]
RenderingKept == image.done => image' = image

\* C26: min_value, max_value, window_center, window_width and color_mode of a
\* DicomImage are fixed at construction from frame 0 only: no frame() call and
\* no preload write of a later frame ever changes them, and for monochrome
\* images min_value <= max_value.
C26_RenderingFixedAtConstruction == []RenderingFromFrameZero /\ [][RenderingKept]_vars

\* A monochrome image whose later frames hold samples above max_value, after a
\* preload worker stored one of them.
C26_Witness ==
    /\ Loaded
    /\ TheImage.color_mode = "Monochrome"
    /\ dcm.first_frame_pixels = <<7, -3>>
    /\ TheImage.window.min_value = -3
    /\ TheImage.window.max_value = 7
    /\ DOMAIN cache = 0 .. 2
    /\ cache[2] # None
    /\ Unwrap(cache[2]).px > TheImage.window.max_value

----------------------------------------------------------------------------
\* The Instance Selector (dicomweb.rs): a series is reduced to one instance or
\* to a mammography quartet.

\* Bounds: the longest instance list given to reduce_series_instances, and the
\* most instances of one series given to select_instances_for_viewer.
MaxInstances == 5
MaxPerSeries == 5

\* The printable ASCII characters, in byte order (the first one is 0x20; the
\* grave accent, 0x60, is written out).
Ascii ==
    <<" ", "!", "\"", "#", "$", "%", "&", "'", "(", ")", "*", "+", ",", "-", ".", "/",
      "0", "1", "2", "3", "4", "5", "6", "7", "8", "9", ":", ";", "<", "=", ">", "?",
      "@", "A", "B", "C", "D", "E", "F", "G", "H", "I", "J", "K", "L", "M", "N", "O",
      "P", "Q", "R", "S", "T", "U", "V", "W", "X", "Y", "Z", "[", "\\", "]", "^", "_",
      "grave", "a", "b", "c", "d", "e", "f", "g", "h", "i", "j", "k", "l", "m", "n", "o",
      "p", "q", "r", "s", "t", "u", "v", "w", "x", "y", "z", "{", "|", "}", "~">>
CodeOf == [ch \in {Ascii[i] : i \in 1 .. Len(Ascii)} |-> 31 + CHOOSE i \in 1 .. Len(Ascii) : Ascii[i] = ch]
Code(ch) == CodeOf[ch]

\* impl Ord for String: byte-wise lexicographic order.
RECURSIVE StrLess(_, _)
StrLess(a, b) ==
    IF b = <<>> THEN FALSE
    ELSE IF a = <<>> THEN TRUE
    ELSE IF Head(a) # Head(b) THEN Code(Head(a)) < Code(Head(b))
    ELSE StrLess(Tail(a), Tail(b))

\* str::starts_with, str::contains
starts_with(t, pat) == Len(t) >= Len(pat) /\ SubSeq(t, 1, Len(pat)) = pat
contains(t, pat) ==
    \E i \in 1 .. Len(t) + 1 : i + Len(pat) - 1 <= Len(t) /\ SubSeq(t, i, i + Len(pat) - 1) = pat

\* str::to_ascii_uppercase
to_ascii_uppercase(t) ==
    [i \in 1 .. Len(t) |->
        IF Code(t[i]) >= 97 /\ Code(t[i]) <= 122 THEN Ascii[Code(t[i]) - 32 - 31] ELSE t[i]]

\* str::replace: every space is removed
without_spaces(t) == SelectSeq(t, LAMBDA ch : ch # " ")

\* value.unwrap_or_default().trim().to_ascii_uppercase(), spaces removed
normalize_token(value) ==
    without_spaces(to_ascii_uppercase(trim(IF value = None THEN <<>> ELSE Unwrap(value))))

classify_laterality(value) ==
    LET token == normalize_token(value)
    IN  IF starts_with(token, <<"R">>) \/ contains(token, <<"R", "I", "G", "H", "T">>) THEN "R"
        ELSE IF starts_with(token, <<"L">>) \/ contains(token, <<"L", "E", "F", "T">>) THEN "L"
        ELSE "none"

classify_view(value) ==
    LET token == normalize_token(value)
    IN  IF contains(token, <<"M", "L", "O">>) THEN "MLO"
        ELSE IF contains(token, <<"C", "C">>) THEN "CC"
        ELSE "none"

view_rank(instance) ==
    LET v == classify_view(instance.view_position)
    IN  IF v = "CC" THEN 0 ELSE IF v = "MLO" THEN 1 ELSE 2
laterality_rank(instance) ==
    LET l == classify_laterality(instance.laterality)
    IN  IF l = "R" THEN 0 ELSE IF l = "L" THEN 1 ELSE 2

I32_MAX == 2147483647

\* Mutant of mammo_sort_key: the laterality is ranked before the view.
mammo_sort_key_laterality_first(instance) ==
    <<laterality_rank(instance), view_rank(instance),
      IF instance.instance_number = None THEN I32_MAX ELSE Unwrap(instance.instance_number),
      instance.instance_uid>>

\* (view_rank, laterality_rank, instance_number, instance_uid)
mammo_sort_key(instance) ==
    <<view_rank(instance), laterality_rank(instance),
      IF instance.instance_number = None THEN I32_MAX ELSE Unwrap(instance.instance_number),
      instance.instance_uid>>

\* impl Ord for (u8, u8, i32, String)
KeyLess(a, b) ==
    \/ a[1] < b[1]
    \/ a[1] = b[1] /\ a[2] < b[2]
    \/ a[1] = b[1] /\ a[2] = b[2] /\ a[3] < b[3]
    \/ a[1] = b[1] /\ a[2] = b[2] /\ a[3] = b[3] /\ StrLess(a[4], b[4])

\* slice::sort_by_key, a stable sort: x goes behind every element whose key is
\* not greater than its own.
RECURSIVE InsertByKey(_, _)
InsertByKey(sorted, x) ==
    IF sorted = <<>> THEN <<x>>
    ELSE IF KeyLess(mammo_sort_key(x), mammo_sort_key(sorted[Len(sorted)]))
         THEN InsertByKey(SubSeq(sorted, 1, Len(sorted) - 1), x) \o <<sorted[Len(sorted)]>>
         ELSE sorted \o <<x>>
keep_input_order(list) == list

RECURSIVE sort_instances_for_mammo(_)
sort_instances_for_mammo(list) ==
    IF list = <<>> THEN <<>>
    ELSE InsertByKey(sort_instances_for_mammo(SubSeq(list, 1, Len(list) - 1)), list[Len(list)])

\* The first instance of the list with these ranks: Some(instance) or None.
FirstOfSlot(list, v, l) ==
    LET hits == SelectSeq(list, LAMBDA x : LET key == mammo_sort_key(x) IN key[1] = v /\ key[2] = l)
    IN  IF hits = <<>> THEN None ELSE Some(Head(hits))

\* Mutant of pick_mammo_quartet: the slots that were found are returned, also
\* when one of them is missing.
pick_mammo_quartet_partial(list) ==
    Some(FirstOfSlot(list, 0, 0) \o FirstOfSlot(list, 0, 1)
         \o FirstOfSlot(list, 1, 0) \o FirstOfSlot(list, 1, 1))

\* Some(vec![rcc?, lcc?, rmlo?, lmlo?])
pick_mammo_quartet(list) ==
    LET rcc == FirstOfSlot(list, 0, 0)
        lcc == FirstOfSlot(list, 0, 1)
        rmlo == FirstOfSlot(list, 1, 0)
        lmlo == FirstOfSlot(list, 1, 1)
    IN  IF rcc = None \/ lcc = None \/ rmlo = None \/ lmlo = None THEN None
        ELSE Some(<<Unwrap(rcc), Unwrap(lcc), Unwrap(rmlo), Unwrap(lmlo)>>)

\* Result<Vec<MetadataInstance>>; an error keeps its message and the count the
\* message is formatted with.
SelOk(list) == [ok |-> TRUE, instances |-> list, err |-> "", count |-> 0]
SelErr(message, n) == [ok |-> FALSE, instances |-> <<>>, err |-> message, count |-> n]

reduce_series_instances(list) ==
    IF Len(list) = 1 THEN SelOk(list)
    ELSE LET sorted == sort_instances_for_mammo(list)
             quartet == pick_mammo_quartet(sorted)
         IN  IF Len(sorted) = 4 THEN SelOk(sorted)
             ELSE IF Len(sorted) > 4 /\ quartet # None THEN SelOk(Unwrap(quartet))
             ELSE SelErr("Series has {} instances. Perspecta currently auto-opens 1 image or a mammo quartet of 4.",
                         Len(sorted))

ReduceSeriesInstances ==
    /\ ~selected.done
    /\ selected' = [done |-> TRUE, out |-> Some(reduce_series_instances(instances))]
    /\ UNCHANGED <<nonSlVars, instances, requested_series_uid>>

\* The instances explored: the four views of a quartet and one that is neither,
\* in every order and number up to MaxInstances; either numbered, the later the
\* lower, or without instance numbers and with descending UIDs.
Quartet ==
    << [view_position |-> Some(<<"C", "C">>), laterality |-> Some(<<"R">>)],
       [view_position |-> Some(<<"C", "C">>), laterality |-> Some(<<"L">>)],
       [view_position |-> Some(<<"M", "L", "O">>), laterality |-> Some(<<"R">>)],
       [view_position |-> Some(<<"M", "L", "O">>), laterality |-> Some(<<"L">>)] >>
OtherView == [view_position |-> Some(<<"M", "L">>), laterality |-> None]
\* A known view with a laterality that is neither right nor left.
OtherSide == [view_position |-> Some(<<"C", "C">>), laterality |-> Some(<<"B">>)]
Kinds == {Quartet[k] : k \in 1 .. 4} \cup {OtherView, OtherSide}
Numberings == {"numbered", "unnumbered"}
SeriesA == <<"1", ".", "2">>
MakeInstance(kind, series, uid, number) ==
    [series_uid |-> series, instance_uid |-> uid, view_position |-> kind.view_position,
     laterality |-> kind.laterality, instance_number |-> number]
MakeInstances(kinds, numbering) ==
    [i \in 1 .. Len(kinds) |->
        IF numbering = "numbered"
        THEN MakeInstance(kinds[i], Some(SeriesA), <<"u">> \o NatText(i), Some(Len(kinds) + 1 - i))
        ELSE MakeInstance(kinds[i], Some(SeriesA), <<"u">> \o NatText(Len(kinds) + 1 - i), None)]
ReduceInputs ==
    {MakeInstances(kinds, nb) :
        kinds \in UNION {[1 .. n -> Kinds] : n \in 0 .. MaxInstances}, nb \in Numberings}

CoreIdle == FsIdle /\ RpIdle /\ LdIdle /\ AuxIdle
NonSlIdle == CoreIdle /\ MpIdle /\ NbIdle /\ MdIdle /\ DlIdle

ReduceInit ==
    /\ instances \in ReduceInputs
    /\ requested_series_uid = None
    /\ selected = Pending
    /\ NonSlIdle

ReduceNext == ReduceSeriesInstances

SpecReduce == ReduceInit /\ [][ReduceNext]_vars

\* The (view, laterality) of an instance as the input was built, and whether the
\* list has each view of the quartet exactly once.
KindOf(instance) == [view_position |-> instance.view_position, laterality |-> instance.laterality]
KindsOf(list) == [i \in 1 .. Len(list) |-> KindOf(list[i])]
Range(list) == {list[i] : i \in 1 .. Len(list)}
DistinctQuartet(list) ==
    /\ Len(list) = 4
    /\ \A k \in 1 .. 4 : \E i \in 1 .. 4 : KindOf(list[i]) = Quartet[k]

\* C11: reduce_series_instances on 4 instances with pairwise distinct (view,
\* laterality) from {CC, MLO} x {R, L} returns, for each of the 24 input orders,
\* the same instances ordered [R/CC, L/CC, R/MLO, L/MLO].
C11_QuartetInCanonicalOrder ==
    (selected.done /\ DistinctQuartet(instances)) =>
        LET r == Unwrap(selected.out)
        IN  /\ r.ok
            /\ KindsOf(r.instances) = Quartet
            /\ Range(r.instances) = Range(instances)

\* A quartet given as [L/MLO, R/MLO, L/CC, R/CC] was reduced.
C11_Witness ==
    /\ selected.done
    /\ KindsOf(instances) = <<Quartet[4], Quartet[3], Quartet[2], Quartet[1]>>
    /\ KindsOf(Unwrap(selected.out).instances) = Quartet

\* Whether the list has an instance of each view of the quartet.
HasEachSlot(list) == \A k \in 1 .. 4 : \E i \in 1 .. Len(list) : KindOf(list[i]) = Quartet[k]

\* C12: reduce_series_instances succeeds only with exactly 1 instance (an input
\* of size 1, unchanged) or exactly 4 (an input of size 4, or a larger one that
\* has (CC,R), (CC,L), (MLO,R) and (MLO,L), one instance of each being returned);
\* for sizes 0, 2, 3 and for larger inputs with a missing slot it returns an
\* error that names the actual count, never a partial quartet.
C12_OneOrFourOrError ==
    selected.done =>
        LET r == Unwrap(selected.out)
            n == Len(instances)
            good == n = 1 \/ n = 4 \/ (n > 4 /\ HasEachSlot(instances))
        IN  /\ r.ok <=> good
            /\ (r.ok /\ n = 1) => r.instances = instances
            /\ (r.ok /\ n # 1) =>
                  /\ Len(r.instances) = 4
                  /\ Range(r.instances) \subseteq Range(instances)
                  /\ n > 4 => KindsOf(r.instances) = Quartet
            /\ ~r.ok => (r.count = n /\ r.instances = <<>>)

\* More than four instances, both views among them but no MLO/L, were refused
\* with their count.
C12_Witness ==
    /\ selected.done
    /\ Len(instances) > 4
    /\ \E i \in 1 .. Len(instances) : KindOf(instances[i]) = Quartet[3]
    /\ \A i \in 1 .. Len(instances) : KindOf(instances[i]) # Quartet[4]
    /\ ~Unwrap(selected.out).ok
    /\ Unwrap(selected.out).count = Len(instances)

\* x comes before y: the lower instance number, then the lower instance UID.
ComesBefore(x, y) ==
    \/ x.instance_number # None /\ y.instance_number # None
          /\ Unwrap(x.instance_number) < Unwrap(y.instance_number)
    \/ x.instance_number = y.instance_number /\ StrLess(x.instance_uid, y.instance_uid)
\* The instance of slot k that comes before every other instance of the slot.
FirstInSlot(list, k) ==
    CHOOSE x \in Range(list) :
        /\ KindOf(x) = Quartet[k]
        /\ \A y \in Range(list) : (KindOf(y) = Quartet[k] /\ y # x) => ComesBefore(x, y)

\* C30: for more than 4 instances with every slot present, the result is
\* [R/CC, L/CC, R/MLO, L/MLO], each slot filled with its instance of lowest
\* instance number, then lowest instance UID; later duplicates and instances of
\* unknown view or laterality are left out.
C30_FirstMatchPerSlot ==
    (selected.done /\ Len(instances) > 4 /\ HasEachSlot(instances)) =>
        LET r == Unwrap(selected.out)
        IN  /\ r.ok
            /\ r.instances = [k \in 1 .. 4 |-> FirstInSlot(instances, k)]

\* C30 witness: two R/CC instances, the later one with the lower number, and
\* the other three slots once: the later R/CC is the one returned.
C30_Witness ==
    /\ selected.done
    /\ KindsOf(instances) = <<Quartet[1], Quartet[4], Quartet[3], Quartet[2], Quartet[1]>>
    /\ instances[1].instance_number # None
    /\ Unwrap(selected.out).instances
          = <<instances[5], instances[4], instances[3], instances[2]>>

----------------------------------------------------------------------------
\* select_instances_for_viewer: which series of a study is reduced.

UNKNOWN_SERIES == <<"U", "N", "K", "N", "O", "W", "N", "_", "S", "E", "R", "I", "E", "S">>
SeriesKey(instance) ==
    IF instance.series_uid = None THEN UNKNOWN_SERIES ELSE Unwrap(instance.series_uid)

\* The keys of a BTreeMap<String, _>, ascending.
RECURSIVE AscendingKeys(_)
AscendingKeys(keys) ==
    IF keys = {} THEN <<>>
    ELSE LET least == CHOOSE k \in keys : \A o \in keys \ {k} : StrLess(k, o)
         IN  <<least>> \o AscendingKeys(keys \ {least})

\* The keys in the order in which the list first has them.
RECURSIVE FirstSeenKeys(_)
FirstSeenKeys(list) ==
    IF list = <<>> THEN <<>>
    ELSE LET front == FirstSeenKeys(SubSeq(list, 1, Len(list) - 1))
             key == SeriesKey(list[Len(list)])
         IN  IF \E i \in 1 .. Len(front) : front[i] = key THEN front ELSE front \o <<key>>

\* Mutant of group_by_series: the series are kept in the order of their first
\* instance.
group_by_series_in_input_order(list) ==
    LET keys == FirstSeenKeys(list)
    IN  [k \in 1 .. Len(keys) |->
            [key |-> keys[k], instances |-> SelectSeq(list, LAMBDA x : SeriesKey(x) = keys[k])]]

\* BTreeMap<String, Vec<MetadataInstance>>, as the sequence of its entries.
group_by_series(list) ==
    LET keys == AscendingKeys({SeriesKey(list[i]) : i \in 1 .. Len(list)})
    IN  [k \in 1 .. Len(keys) |->
            [key |-> keys[k], instances |-> SelectSeq(list, LAMBDA x : SeriesKey(x) = keys[k])]]

select_instances_for_viewer(list, requested) ==
    IF requested # None
    THEN LET filtered == SelectSeq(list, LAMBDA x : x.series_uid = requested)
         IN  IF filtered = <<>>
             THEN SelErr("Requested series UID was not found in study metadata", 0)
             ELSE reduce_series_instances(filtered)
    ELSE LET grouped == group_by_series(list)
             fours == SelectSeq(grouped, LAMBDA g : Len(g.instances) = 4)
         IN  IF grouped = <<>> THEN SelErr("Study metadata contains no series", 0)
             ELSE IF Len(grouped) = 1 THEN reduce_series_instances(grouped[1].instances)
             ELSE IF fours # <<>> THEN reduce_series_instances(Head(fours).instances)
             ELSE SelErr("Study contains multiple series. Add series UID in the perspecta URL for deterministic loading.", 0)

SelectInstancesForViewer ==
    /\ ~selected.done
    /\ selected' = [done |-> TRUE,
                    out |-> Some(select_instances_for_viewer(instances, requested_series_uid))]
    /\ UNCHANGED <<nonSlVars, instances, requested_series_uid>>

\* The studies explored: up to MaxPerSeries instances of each of the series
\* "1.2" and "1.10" and of instances without a series UID, series after series or
\* interleaved; the request names no series, one of the two, or an unknown one.
SeriesB == <<"1", ".", "1", "0">>
StudySeries == <<Some(SeriesA), Some(SeriesB), None>>
Arrangements == {"blocks", "reversed", "interleaved"}
SeriesInstance(j, k) ==
    MakeInstance(Quartet[((j + k) % 4) + 1], StudySeries[j],
                 <<"s">> \o NatText(j) \o <<".">> \o NatText(k), Some(k))
SeriesBlock(j, count) == [k \in 1 .. count |-> SeriesInstance(j, k)]
RECURSIVE Interleaved(_, _)
Interleaved(counts, k) ==
    IF \A j \in 1 .. 3 : counts[j] < k THEN <<>>
    ELSE (IF counts[1] >= k THEN <<SeriesInstance(1, k)>> ELSE <<>>)
         \o (IF counts[2] >= k THEN <<SeriesInstance(2, k)>> ELSE <<>>)
         \o (IF counts[3] >= k THEN <<SeriesInstance(3, k)>> ELSE <<>>)
         \o Interleaved(counts, k + 1)
MakeStudy(counts, arrangement) ==
    CASE arrangement = "blocks" ->
            SeriesBlock(1, counts[1]) \o SeriesBlock(2, counts[2]) \o SeriesBlock(3, counts[3])
      [] arrangement = "reversed" ->
            SeriesBlock(3, counts[3]) \o SeriesBlock(2, counts[2]) \o SeriesBlock(1, counts[1])
      [] arrangement = "interleaved" -> Interleaved(counts, 1)
SelectInputs ==
    {MakeStudy(counts, a) : counts \in [1 .. 3 -> 0 .. MaxPerSeries], a \in Arrangements}
RequestedSeries == {None, Some(SeriesA), Some(SeriesB), Some(<<"9">>)}

SelectInit ==
    /\ instances \in SelectInputs
    /\ requested_series_uid \in RequestedSeries
    /\ selected = Pending
    /\ NonSlIdle

SelectNext == SelectInstancesForViewer

SpecSelect == SelectInit /\ [][SelectNext]_vars

\* The instances of one series of the study, in input order.
InstancesOf(key) == SelectSeq(instances, LAMBDA x : SeriesKey(x) = key)
SeriesOfStudy == {SeriesKey(instances[i]) : i \in 1 .. Len(instances)}
SeriesOfFour == {k \in SeriesOfStudy : Len(InstancesOf(k)) = 4}
FirstSeriesOfFour == CHOOSE k \in SeriesOfFour : \A o \in SeriesOfFour \ {k} : StrLess(k, o)

\* C13: with a requested series UID only the instances of that series are reduced
\* (an error if there is none); without one, a study of a single series is
\* reduced as a whole, and of several series the first one in series-UID order
\* that has exactly 4 instances is reduced; if no series has exactly 4 instances
\* the call fails asking for a series UID.
C13_SeriesChosenForViewer ==
    selected.done =>
        LET r == Unwrap(selected.out)
            mine == SelectSeq(instances, LAMBDA x : x.series_uid = requested_series_uid)
        IN  IF requested_series_uid # None
            THEN IF mine = <<>>
                 THEN ~r.ok /\ r.err = "Requested series UID was not found in study metadata"
                 ELSE r = reduce_series_instances(mine)
            ELSE IF SeriesOfStudy = {} THEN ~r.ok
            ELSE IF Cardinality(SeriesOfStudy) = 1 THEN r = reduce_series_instances(instances)
            ELSE IF SeriesOfFour # {} THEN r = reduce_series_instances(InstancesOf(FirstSeriesOfFour))
            ELSE /\ ~r.ok
                 /\ r.err = "Study contains multiple series. Add series UID in the perspecta URL for deterministic loading."

\* No series was requested, the study begins with four instances of "1.2" and
\* has four of "1.10" as well, and the quartet of "1.10" was chosen.
C13_Witness ==
    /\ selected.done
    /\ requested_series_uid = None
    /\ Len(InstancesOf(SeriesA)) = 4
    /\ Len(InstancesOf(SeriesB)) = 4
    /\ instances[1].series_uid = Some(SeriesA)
    /\ Unwrap(selected.out).ok
    /\ \A i \in 1 .. 4 : Unwrap(selected.out).instances[i].series_uid = Some(SeriesB)

----------------------------------------------------------------------------
\* The multipart unwrapping of a downloaded body (dicomweb.rs).

\* Bound: the longest payload explored.
MaxPayload == 4

CR == 13
LF == 10
DASH == 45

\* haystack.windows(needle.len()).position(|window| window == needle)
find_subslice(haystack, needle) ==
    IF needle = <<>> \/ Len(needle) > Len(haystack) THEN None
    ELSE LET hits == {i \in 0 .. Len(haystack) - Len(needle) :
                         Slice(haystack, i, i + Len(needle)) = needle}
         IN  IF hits = {} THEN None
             ELSE Some(CHOOSE i \in hits : \A j \in hits : i <= j)

\* Some(<<index, separator length>>) or None.
find_line_end(bytes) ==
    LET crlf == find_subslice(bytes, <<CR, LF>>)
        lf == find_subslice(bytes, <<LF>>)
    IN  IF crlf # None THEN Some(<<Unwrap(crlf), 2>>)
        ELSE IF lf # None THEN Some(<<Unwrap(lf), 1>>)
        ELSE None

find_headers_end(bytes) ==
    LET crlf == find_subslice(bytes, <<CR, LF, CR, LF>>)
        lf == find_subslice(bytes, <<LF, LF>>)
    IN  IF crlf # None THEN Some(<<Unwrap(crlf), 4>>)
        ELSE IF lf # None THEN Some(<<Unwrap(lf), 2>>)
        ELSE None

find_boundary_after_payload(bytes, payload_start, boundary) ==
    LET rest == Slice(bytes, payload_start, Len(bytes))
        marker == find_subslice(rest, <<CR, LF, DASH, DASH>> \o boundary)
        marker_lf == find_subslice(rest, <<LF, DASH, DASH>> \o boundary)
    IN  IF marker # None THEN Some(payload_start + Unwrap(marker))
        ELSE IF marker_lf # None THEN Some(payload_start + Unwrap(marker_lf))
        ELSE None

extract_dicom_from_multipart(bytes) ==
    LET line == find_line_end(bytes)
    IN  IF line = None THEN None
        ELSE
        LET line_end == Unwrap(line)[1]
            line_sep_len == Unwrap(line)[2]
            first_line == Slice(bytes, 0, line_end)
            boundary == Slice(first_line, 2, Len(first_line))
            headers_start == line_end + line_sep_len
            headers == find_headers_end(Slice(bytes, headers_start, Len(bytes)))
        IN  IF ~starts_with(first_line, <<DASH, DASH>>) \/ Len(first_line) <= 2 THEN None
            ELSE IF headers = None THEN None
            ELSE
            LET payload_start == headers_start + Unwrap(headers)[1] + Unwrap(headers)[2]
                payload_end == find_boundary_after_payload(bytes, payload_start, boundary)
            IN  IF payload_end = None THEN None
                ELSE Some(Slice(bytes, payload_start, Unwrap(payload_end)))

unwrap_dicom_multipart(bytes) ==
    LET extracted == extract_dicom_from_multipart(bytes)
    IN  IF extracted # None THEN Unwrap(extracted) ELSE bytes

\* The bytes of a body: a multipart envelope with CRLF or LF line endings around
\* the payload, or the payload alone.
Eol(kind) == IF kind = "crlf" THEN <<CR, LF>> ELSE <<LF>>
ContentType == <<67, 111, 110, 116, 101, 110, 116, 45, 84, 121, 112, 101, 58, 32, 120>>
BodyBytes(b) ==
    IF b.kind = "plain" THEN b.payload
    ELSE <<DASH, DASH>> \o b.boundary \o Eol(b.kind)
         \o ContentType \o Eol(b.kind) \o Eol(b.kind)
         \o b.payload \o Eol(b.kind)
         \o <<DASH, DASH>> \o b.boundary \o <<DASH, DASH>> \o Eol(b.kind)

UnwrapDicomMultipart ==
    /\ ~unwrapped.done
    /\ unwrapped' = [done |-> TRUE,
                     out |-> Some([extracted |-> extract_dicom_from_multipart(BodyBytes(response_bytes)),
                                   bytes |-> unwrap_dicom_multipart(BodyBytes(response_bytes))])]
    /\ UNCHANGED <<nonMpVars, response_bytes>>

\* The bodies explored: every payload of up to MaxPayload bytes out of CR, LF,
\* '-', 'B' and 'x', alone or in an envelope with the boundary "B".
PayloadBytes == {CR, LF, DASH, 66, 120}
Payloads == UNION {[1 .. n -> PayloadBytes] : n \in 0 .. MaxPayload}
MultipartInputs == [kind : {"crlf", "lf", "plain"}, boundary : {<<66>>}, payload : Payloads]

NonMpIdle == CoreIdle /\ SlIdle /\ NbIdle /\ MdIdle /\ DlIdle

MultipartInit ==
    /\ response_bytes \in MultipartInputs
    /\ unwrapped = Pending
    /\ NonMpIdle

MultipartNext == UnwrapDicomMultipart

SpecMultipart == MultipartInit /\ [][MultipartNext]_vars

\* The payload has a line break followed by "--" and the boundary.
HasBoundaryLine(b) == contains(b.payload, <<LF, DASH, DASH>> \o b.boundary)
\* The first line of the body, read up to its first line break.
FirstLine(bytes) ==
    LET lf == find_subslice(bytes, <<LF>>)
        end == IF lf = None THEN Len(bytes) ELSE Unwrap(lf)
    IN  IF end > 0 /\ At(bytes, end - 1) = CR /\ lf # None THEN Slice(bytes, 0, end - 1)
        ELSE Slice(bytes, 0, end)

\* C14, for an envelope: the payload comes back exactly, with CRLF and with LF
\* line endings, whenever it has no line break followed by the boundary marker.
C14_EnvelopeGivesPayload ==
    (unwrapped.done /\ response_bytes.kind # "plain" /\ ~HasBoundaryLine(response_bytes)) =>
        Unwrap(unwrapped.out).extracted = Some(response_bytes.payload)

\* C14, for a body that is no envelope: extract returns None and unwrap returns
\* the body unchanged.
C14_PlainBodyUnchanged ==
    (unwrapped.done /\ ~starts_with(FirstLine(BodyBytes(response_bytes)), <<DASH, DASH>>)) =>
        /\ Unwrap(unwrapped.out).extracted = None
        /\ Unwrap(unwrapped.out).bytes = BodyBytes(response_bytes)

\* C14: extract_dicom_from_multipart on a '--B' line, part headers, a blank line,
\* the payload, a line break and '--B...' returns exactly the payload (for CRLF
\* and for LF line endings, for any payload without a line break followed by
\* '--B'); on a body whose first line does not start with '--' it returns None
\* and unwrap_dicom_multipart returns the body unchanged.
C14_MultipartPayloadExact == C14_EnvelopeGivesPayload /\ C14_PlainBodyUnchanged

----------------------------------------------------------------------------
\* The base URL normalization (dicomweb.rs).

\* Bound: the longest tail appended to a URL.
MaxTail == 4

\* str::find of a character or of a text: Some(0-based index) or None.
find(t, pat) ==
    LET hits == {i \in 0 .. Len(t) - Len(pat) : Slice(t, i, i + Len(pat)) = pat}
    IN  IF pat = <<>> THEN Some(0)
        ELSE IF hits = {} THEN None
        ELSE Some(CHOOSE i \in hits : \A j \in hits : i <= j)

\* str::trim_end_matches('/'), str::trim_start_matches('/'), str::trim_matches('/')
RECURSIVE trim_end_slashes(_)
trim_end_slashes(t) ==
    IF t # <<>> /\ t[Len(t)] = "/" THEN trim_end_slashes(SubSeq(t, 1, Len(t) - 1)) ELSE t
RECURSIVE trim_start_slashes(_)
trim_start_slashes(t) == IF t # <<>> /\ Head(t) = "/" THEN trim_start_slashes(Tail(t)) ELSE t
trim_slashes(t) == trim_end_slashes(trim_start_slashes(t))

strip_query_and_fragment(value) ==
    LET query == find(value, <<"?">>)
        fragment == find(value, <<"#">>)
        query_index == IF query = None THEN Len(value) ELSE Unwrap(query)
        fragment_index == IF fragment = None THEN Len(value) ELSE Unwrap(fragment)
    IN  Slice(value, 0, Min(query_index, fragment_index))

has_root_only_path(url) ==
    LET scheme == find(url, <<":", "/", "/">>)
    IN  IF scheme # None
        THEN LET rest == Slice(url, Unwrap(scheme) + 3, Len(url))
                 path_index == find(rest, <<"/">>)
             IN  IF path_index = None THEN TRUE
                 ELSE trim_slashes(Slice(rest, Unwrap(path_index), Len(rest))) = <<>>
        ELSE ~contains(url, <<"/">>)

DICOM_WEB == <<"/", "d", "i", "c", "o", "m", "-", "w", "e", "b">>

normalize_base_url(url) ==
    LET trimmed == trim_end_slashes(trim(strip_query_and_fragment(trim(url))))
    IN  IF trimmed = <<>> THEN <<>>
        ELSE IF has_root_only_path(trimmed) THEN trimmed \o DICOM_WEB
        ELSE trimmed

\* let base = normalize_base_url(&request.base_url), and the same applied to base.
NormalizeBaseUrl ==
    /\ ~base.done
    /\ base' = [done |-> TRUE,
                out |-> Some([once |-> normalize_base_url(base_url),
                              twice |-> normalize_base_url(normalize_base_url(base_url))])]
    /\ UNCHANGED <<nonNbVars, base_url>>

\* The URLs explored: a host with or without a scheme, a port, a path or the
\* API path, followed by up to MaxTail characters out of '/', '?', '#', ' ' and
\* 'p'.
UrlHeads ==
    { <<>>,
      <<"h">>,
      <<"s", ":", "/", "/", "h">>,
      <<" ", "s", ":", "/", "/", "h", ":", "8">>,
      <<"s", ":", "/", "/", "h", "/", "p">>,
      <<"h", "/", "p">>,
      <<"s", ":", "/", "/", "h">> \o DICOM_WEB }
UrlTailChars == {"/", "?", "#", " ", "p"}
UrlTails == UNION {[1 .. n -> UrlTailChars] : n \in 0 .. MaxTail}
BaseUrls == {head \o tail : head \in UrlHeads, tail \in UrlTails}

NonNbIdle == CoreIdle /\ SlIdle /\ MpIdle /\ MdIdle /\ DlIdle

NormalizeInit ==
    /\ base_url \in BaseUrls
    /\ base = Pending
    /\ NonNbIdle

NormalizeNext == NormalizeBaseUrl

SpecNormalize == NormalizeInit /\ [][NormalizeNext]_vars

\* The URL without its query and fragment, its surrounding blanks and its
\* trailing slashes; and the segments of its path, the text between the slashes
\* that follow the host.
RECURSIVE BeforeQuery(_)
BeforeQuery(url) ==
    IF url = <<>> \/ Head(url) \in {"?", "#"} THEN <<>> ELSE <<Head(url)>> \o BeforeQuery(Tail(url))
RECURSIVE Strip(_)
Strip(url) ==
    IF url # <<>> /\ Head(url) = " " THEN Strip(Tail(url))
    ELSE IF url # <<>> /\ url[Len(url)] \in {" ", "/"} THEN Strip(SubSeq(url, 1, Len(url) - 1))
    ELSE url
Remaining(url) == Strip(BeforeQuery(url))
AfterScheme(url) ==
    IF contains(url, <<":", "/", "/">>)
    THEN Slice(url, Unwrap(find(url, <<":", "/", "/">>)) + 3, Len(url))
    ELSE url
HasPathSegment(url) ==
    LET rest == AfterScheme(url)
    IN  \E i \in 1 .. Len(rest) : rest[i] = "/" /\ \E j \in i + 1 .. Len(rest) : rest[j] # "/"
ends_with(t, pat) == Len(t) >= Len(pat) /\ SubSeq(t, Len(t) - Len(pat) + 1, Len(t)) = pat

\* C15, the result: no query, no fragment, no trailing slash, and '/dicom-web'
\* appended exactly when no path segment follows the host.
C15_NormalizedForm ==
    (base.done /\ Remaining(base_url) # <<>>) =>
        LET once == Unwrap(base.out).once
        IN  /\ ~contains(once, <<"?">>) /\ ~contains(once, <<"#">>)
            /\ ~ends_with(once, <<"/">>)
            /\ once = IF HasPathSegment(Remaining(base_url))
                      THEN Remaining(base_url) ELSE Remaining(base_url) \o DICOM_WEB

\* C15, idempotence: normalize(normalize(u)) = normalize(u).
C15_Idempotent == base.done => Unwrap(base.out).twice = Unwrap(base.out).once

\* C15: normalize_base_url strips query, fragment and trailing slashes, appends
\* '/dicom-web' exactly when the remaining URL has no path segment beyond the
\* host, and is idempotent: normalize(normalize(u)) = normalize(u) for every u,
\* so the suffix is never added twice.
C15_NormalizeBaseUrl == C15_NormalizedForm /\ C15_Idempotent

----------------------------------------------------------------------------
\* The metadata extractor (dicomweb.rs): the objects of a DICOM JSON array are
\* cut out of the text and the tags are searched in each of them.

\* Bound: the most objects in a metadata response.
MaxObjects == 2

QUOTE == "\""
BACKSLASH == "\\"
TAG_SOP_INSTANCE_UID == <<"0", "0", "0", "8", "0", "0", "1", "8">>
TAG_SERIES_INSTANCE_UID == <<"0", "0", "2", "0", "0", "0", "0", "E">>
TAG_INSTANCE_NUMBER == <<"0", "0", "2", "0", "0", "0", "1", "3">>
TAG_VIEW_POSITION == <<"0", "0", "1", "8", "5", "1", "0", "1">>
TAG_IMAGE_LATERALITY == <<"0", "0", "2", "0", "0", "0", "6", "2">>
TAG_LATERALITY == <<"0", "0", "2", "0", "0", "0", "6", "0">>
VALUE_KEY == <<QUOTE, "V", "a", "l", "u", "e", QUOTE>>

\* The first index from `from` on whose character is one of chars, or the length.
NextIndex(t, from, chars) ==
    LET hits == {j \in from .. Len(t) - 1 : At(t, j) \in chars}
    IN  IF hits = {} THEN Len(t) ELSE CHOOSE j \in hits : \A k \in hits : j <= k

\* The next index from `from` on whose character can change the state of the
\* loop of split_top_level_json_objects: the characters between are passed over.
Skip(t, from, in_string) ==
    NextIndex(t, from, IF in_string THEN {QUOTE, BACKSLASH} ELSE {QUOTE, "{", "}"})

\* One turn of the loop of split_top_level_json_objects, on the character at
\* st.index, and on to the next character that matters.
ScanStep(t, st) ==
    LET ch == At(t, st.index)
        next == st.index + 1
    IN  IF st.in_string
        THEN IF st.escaped THEN [st EXCEPT !.escaped = FALSE, !.index = Skip(t, next, TRUE)]
             ELSE IF ch = BACKSLASH THEN [st EXCEPT !.escaped = TRUE, !.index = next]
             ELSE IF ch = QUOTE THEN [st EXCEPT !.in_string = FALSE, !.index = Skip(t, next, FALSE)]
             ELSE [st EXCEPT !.index = Skip(t, next, TRUE)]
        ELSE IF ch = QUOTE THEN [st EXCEPT !.in_string = TRUE, !.index = Skip(t, next, TRUE)]
        ELSE IF ch = "{"
        THEN [st EXCEPT !.depth = @ + 1, !.index = Skip(t, next, FALSE),
                        !.object_start = IF st.depth = 0 THEN Some(st.index) ELSE @]
        ELSE IF ch = "}"
        THEN IF st.depth = 0 THEN [st EXCEPT !.err = "Unexpected closing brace in JSON"]
             ELSE IF st.depth = 1
             THEN [st EXCEPT !.depth = 0, !.index = Skip(t, next, FALSE), !.object_start = None,
                             !.objects = IF st.object_start = None THEN @
                                         ELSE Append(@, Slice(t, Unwrap(st.object_start), next))]
             ELSE [st EXCEPT !.depth = @ - 1, !.index = Skip(t, next, FALSE)]
        ELSE [st EXCEPT !.index = Skip(t, next, FALSE)]

\* The loop, from the state st up to the end of the text, to an error, or to
\* the object pushed after the first `count` ones.
RECURSIVE ScanSegment(_, _, _)
ScanSegment(t, st, count) ==
    IF st.err # "" \/ st.index >= Len(t) \/ Len(st.objects) > count THEN st
    ELSE ScanSegment(t, ScanStep(t, st), count)

\* The loop, object after object.
RECURSIVE ScanAll(_, _)
ScanAll(t, st) ==
    IF st.err # "" \/ st.index >= Len(t) THEN st
    ELSE ScanAll(t, ScanSegment(t, st, Len(st.objects)))

ScanFrom0(t) ==
    ScanAll(t, [objects |-> <<>>, depth |-> 0, object_start |-> None,
                in_string |-> FALSE, escaped |-> FALSE, index |-> 0, err |-> ""])

split_without_final_check(t) ==
    IF ScanFrom0(t).err # "" THEN <<"Err", ScanFrom0(t).err>> ELSE <<"Ok", ScanFrom0(t).objects>>

\* Result<Vec<&str>>: <<"Ok", objects>> or <<"Err", message>>.
split_top_level_json_objects(t) ==
    LET st == ScanAll(t, [objects |-> <<>>, depth |-> 0, object_start |-> None,
                          in_string |-> FALSE, escaped |-> FALSE, index |-> 0, err |-> ""])
    IN  IF st.err # "" THEN <<"Err", st.err>>
        ELSE IF st.depth # 0 \/ st.in_string THEN <<"Err", "Unbalanced JSON while parsing metadata">>
        ELSE <<"Ok", st.objects>>

\* u8::is_ascii_whitespace
IsAsciiWhitespace(ch) == ch \in {" ", "\t", "\n", "\f", "\r"}

\* The index of the quote that closes the string opened before index i, or None.
RECURSIVE ClosingQuote(_, _, _)
ClosingQuote(value, i, escaped) ==
    IF i >= Len(value) THEN None
    ELSE IF escaped THEN ClosingQuote(value, i + 1, FALSE)
    ELSE IF At(value, i) = BACKSLASH THEN ClosingQuote(value, i + 1, TRUE)
    ELSE IF At(value, i) = QUOTE THEN Some(i)
    ELSE ClosingQuote(value, i + 1, FALSE)

parse_first_json_token(value) ==
    LET blanks == {j \in 0 .. Len(value) - 1 : \A k \in 0 .. j : IsAsciiWhitespace(At(value, k))}
        i == Cardinality(blanks)
    IN  IF i >= Len(value) THEN None
        ELSE IF At(value, i) = "]" THEN None
        ELSE IF At(value, i) = QUOTE
        THEN LET close == ClosingQuote(value, i + 1, FALSE)
             IN  IF close = None THEN None ELSE Some(Slice(value, i, Unwrap(close) + 1))
        ELSE Some(trim(Slice(value, i, NextIndex(value, i, {",", "]"}))))

\* u16::from_str_radix(&hex, 16) of four characters: the value, or -1.
HexDigits == <<"0", "1", "2", "3", "4", "5", "6", "7", "8", "9", "A", "B", "C", "D", "E", "F">>
HexValueOf(ch) ==
    LET up == to_ascii_uppercase(<<ch>>)[1]
    IN  IF \E d \in 1 .. 16 : HexDigits[d] = up
        THEN (CHOOSE d \in 1 .. 16 : HexDigits[d] = up) - 1 ELSE -1
RECURSIVE HexNumber(_)
HexNumber(hex) ==
    IF hex = <<>> THEN 0
    ELSE LET hi == HexNumber(SubSeq(hex, 1, Len(hex) - 1))
             d == HexValueOf(hex[Len(hex)])
         IN  IF hi < 0 \/ d < 0 THEN -1 ELSE hi * 16 + d
from_str_radix_16(hex) ==
    IF Head(hex) = "+" THEN HexNumber(Tail(hex)) ELSE HexNumber(hex)

\* char::from_u32 of a 16-bit value: the character (a printable ASCII one as
\* itself, any other one as "U+"), or nothing for a surrogate.
DecodedChar(codepoint) ==
    IF codepoint >= 55296 /\ codepoint <= 57343 THEN <<>>
    ELSE IF codepoint >= 32 /\ codepoint <= 126 /\ codepoint # 96 THEN <<Ascii[codepoint - 31]>>
    ELSE <<"U+">>

\* The character U+0008, which has no escape of its own here.
BACKSPACE == "U+0008"

RECURSIVE unescape_json_string(_)
unescape_json_string(in) ==
    IF in = <<>> THEN <<>>
    ELSE IF Head(in) # BACKSLASH THEN <<Head(in)>> \o unescape_json_string(Tail(in))
    ELSE IF Len(in) = 1 THEN <<>>
    ELSE
    LET next == in[2]
        rest == SubSeq(in, 3, Len(in))
    IN  IF next = "b" THEN <<BACKSPACE>> \o unescape_json_string(rest)
        ELSE IF next = "f" THEN <<"\f">> \o unescape_json_string(rest)
        ELSE IF next = "n" THEN <<"\n">> \o unescape_json_string(rest)
        ELSE IF next = "r" THEN <<"\r">> \o unescape_json_string(rest)
        ELSE IF next = "t" THEN <<"\t">> \o unescape_json_string(rest)
        ELSE IF next = "u"
        THEN LET hex == SubSeq(rest, 1, Min(4, Len(rest)))
                 after == SubSeq(rest, Len(hex) + 1, Len(rest))
             IN  (IF Len(hex) = 4 /\ from_str_radix_16(hex) >= 0
                  THEN DecodedChar(from_str_radix_16(hex)) ELSE <<>>)
                 \o unescape_json_string(after)
        ELSE <<next>> \o unescape_json_string(rest)

first_token_to_string(raw) ==
    LET token == trim(raw)
    IN  IF token = <<>> \/ token = <<"n", "u", "l", "l">> THEN None
        ELSE IF Head(token) = QUOTE /\ token[Len(token)] = QUOTE /\ Len(token) >= 2
        THEN Some(unescape_json_string(SubSeq(token, 2, Len(token) - 1)))
        ELSE Some(token)

first_tag_string(object, tag) ==
    LET needle == <<QUOTE>> \o tag \o <<QUOTE>>
        tag_pos == find(object, needle)
        tail == Slice(object, Unwrap(tag_pos) + Len(needle), Len(object))
        value_pos == find(tail, VALUE_KEY)
        after_value == Slice(tail, Unwrap(value_pos) + Len(VALUE_KEY), Len(tail))
        array_start == find(after_value, <<"[">>)
        first_token == parse_first_json_token(Slice(after_value, Unwrap(array_start) + 1,
                                                    Len(after_value)))
    IN  IF tag_pos = None THEN None
        ELSE IF value_pos = None THEN None
        ELSE IF array_start = None THEN None
        ELSE IF first_token = None THEN None
        ELSE first_token_to_string(Unwrap(first_token))

\* The MetadataInstance of one object, or None when the object is skipped.
InstanceOfObject(obj) ==
    LET instance_uid == first_tag_string(obj, TAG_SOP_INSTANCE_UID)
        image_laterality == first_tag_string(obj, TAG_IMAGE_LATERALITY)
        number == first_tag_string(obj, TAG_INSTANCE_NUMBER)
    IN  IF instance_uid = None \/ trim(Unwrap(instance_uid)) = <<>> THEN None
        ELSE Some([series_uid |-> first_tag_string(obj, TAG_SERIES_INSTANCE_UID),
                   instance_uid |-> Unwrap(instance_uid),
                   view_position |-> first_tag_string(obj, TAG_VIEW_POSITION),
                   laterality |-> IF image_laterality # None THEN image_laterality
                                  ELSE first_tag_string(obj, TAG_LATERALITY),
                   instance_number |-> IF number = None THEN None ELSE parse_i32(Unwrap(number))])

RECURSIVE InstancesOfObjects(_)
InstancesOfObjects(objects) ==
    IF objects = <<>> THEN <<>>
    ELSE InstancesOfObjects(SubSeq(objects, 1, Len(objects) - 1))
         \o InstanceOfObject(objects[Len(objects)])

parse_metadata_instances(json) ==
    LET object_slices == split_top_level_json_objects(json)
    IN  IF object_slices[1] = "Err"
        THEN [ok |-> FALSE, instances |-> <<>>, err |-> "DICOMweb metadata JSON parsing failed"]
        ELSE [ok |-> TRUE, instances |-> InstancesOfObjects(object_slices[2]), err |-> ""]

\* The elements a metadata object is built from (i is the place of the object
\* in the array), in the order of their tags.
ElementText(name, i) ==
    CASE name = "sop" ->
        <<QUOTE, "0", "0", "0", "8", "0", "0", "1", "8", QUOTE, ":", "{", QUOTE, "v", "r", QUOTE, ":", QUOTE, "U", "I", QUOTE, ",", QUOTE, "V", "a", "l", "u", "e", QUOTE, ":", "[", QUOTE, "u">> \o NatText(i) \o <<QUOTE, "]", "}">>
      [] name = "sop_blank" ->
        <<QUOTE, "0", "0", "0", "8", "0", "0", "1", "8", QUOTE, ":", "{", QUOTE, "v", "r", QUOTE, ":", QUOTE, "U", "I", QUOTE, ",", QUOTE, "V", "a", "l", "u", "e", QUOTE, ":", "[", QUOTE, " ", QUOTE, "]", "}">>
      [] name = "sop_empty" ->
        <<QUOTE, "0", "0", "0", "8", "0", "0", "1", "8", QUOTE, ":", "{", QUOTE, "v", "r", QUOTE, ":", QUOTE, "U", "I", QUOTE, ",", QUOTE, "V", "a", "l", "u", "e", QUOTE, ":", "[", "]", "}">>
      [] name = "sop_null" ->
        <<QUOTE, "0", "0", "0", "8", "0", "0", "1", "8", QUOTE, ":", "{", QUOTE, "v", "r", QUOTE, ":", QUOTE, "U", "I", QUOTE, ",", QUOTE, "V", "a", "l", "u", "e", QUOTE, ":", "[", "n", "u", "l", "l", "]", "}">>
      [] name = "sop_valueless" ->
        <<QUOTE, "0", "0", "0", "8", "0", "0", "1", "8", QUOTE, ":", "{", QUOTE, "v", "r", QUOTE, ":", QUOTE, "U", "I", QUOTE, "}">>
      [] name = "seq" ->
        <<QUOTE, "0", "0", "0", "8", "2", "1", "1", "2", QUOTE, ":", "{", QUOTE, "v", "r", QUOTE, ":", QUOTE, "S", "Q", QUOTE, ",", QUOTE, "V", "a", "l", "u", "e", QUOTE, ":", "[", "{", QUOTE, "0", "0", "0", "8", "1", "1", "5", "0", QUOTE, ":", "{", QUOTE, "v", "r", QUOTE, ":", QUOTE, "U", "I", QUOTE, ",", QUOTE, "V", "a", "l", "u", "e", QUOTE, ":", "[", QUOTE, "x", "}", QUOTE, "]", "}", "}", "]", "}">>
      [] name = "view" ->
        <<QUOTE, "0", "0", "1", "8", "5", "1", "0", "1", QUOTE, ":", "{", QUOTE, "v", "r", QUOTE, ":", QUOTE, "C", "S", QUOTE, ",", QUOTE, "V", "a", "l", "u", "e", QUOTE, ":", "[", QUOTE, "C", "C", QUOTE, "]", "}">>
      [] name = "view_valueless" ->
        <<QUOTE, "0", "0", "1", "8", "5", "1", "0", "1", QUOTE, ":", "{", QUOTE, "v", "r", QUOTE, ":", QUOTE, "C", "S", QUOTE, "}">>
      [] name = "series" ->
        <<QUOTE, "0", "0", "2", "0", "0", "0", "0", "E", QUOTE, ":", "{", QUOTE, "v", "r", QUOTE, ":", QUOTE, "U", "I", QUOTE, ",", QUOTE, "V", "a", "l", "u", "e", QUOTE, ":", "[", QUOTE, "1", ".", "2", QUOTE, "]", "}">>
      [] name = "number" ->
        <<QUOTE, "0", "0", "2", "0", "0", "0", "1", "3", QUOTE, ":", "{", QUOTE, "v", "r", QUOTE, ":", QUOTE, "I", "S", QUOTE, ",", QUOTE, "V", "a", "l", "u", "e", QUOTE, ":", "[", "7", "]", "}">>
      [] name = "lat" ->
        <<QUOTE, "0", "0", "2", "0", "0", "0", "6", "0", QUOTE, ":", "{", QUOTE, "v", "r", QUOTE, ":", QUOTE, "C", "S", QUOTE, ",", QUOTE, "V", "a", "l", "u", "e", QUOTE, ":", "[", QUOTE, "R", QUOTE, "]", "}">>
      [] name = "image_lat" ->
        <<QUOTE, "0", "0", "2", "0", "0", "0", "6", "2", QUOTE, ":", "{", QUOTE, "v", "r", QUOTE, ":", QUOTE, "C", "S", QUOTE, ",", QUOTE, "V", "a", "l", "u", "e", QUOTE, ":", "[", QUOTE, "L", QUOTE, "]", "}">>

\* The objects explored, by the elements they hold.
ObjectKinds ==
    [uid_only |-> <<"sop">>,
     full |-> <<"sop", "seq", "view", "series", "number", "lat", "image_lat">>,
     no_sop |-> <<"series", "number">>,
     blank_sop |-> <<"sop_blank", "series">>,
     empty_sop |-> <<"sop_empty", "series">>,
     null_sop |-> <<"sop_null">>,
     valueless_sop |-> <<"sop_valueless", "series">>,
     valueless_view |-> <<"sop", "view_valueless", "number">>,
     legacy_lat |-> <<"sop", "lat">>]
ObjectKindNames == DOMAIN ObjectKinds

RECURSIVE JoinElements(_, _)
JoinElements(names, i) ==
    IF names = <<>> THEN <<>>
    ELSE IF Len(names) = 1 THEN ElementText(names[1], i)
    ELSE ElementText(names[1], i) \o <<",">> \o JoinElements(Tail(names), i)
ObjectText(kind, i) == <<"{">> \o JoinElements(ObjectKinds[kind], i) \o <<"}">>
RECURSIVE JoinObjects(_, _)
JoinObjects(kinds, i) ==
    IF i > Len(kinds) THEN <<>>
    ELSE ObjectText(kinds[i], i) \o (IF i < Len(kinds) THEN <<",">> ELSE <<>>)
         \o JoinObjects(kinds, i + 1)
JsonText(kinds) == <<"[">> \o JoinObjects(kinds, 1) \o <<"]">>

ParseMetadataInstances ==
    /\ ~metadata_instances.done
    /\ metadata_instances' =
          [done |-> TRUE, out |-> Some(parse_metadata_instances(JsonText(metadata_json)))]
    /\ UNCHANGED <<nonMdVars, metadata_json>>

MetadataInputs == UNION {[1 .. n -> ObjectKindNames] : n \in 0 .. MaxObjects}

NonMdIdle == CoreIdle /\ SlIdle /\ MpIdle /\ NbIdle /\ DlIdle

MetadataInit ==
    /\ metadata_json \in MetadataInputs
    /\ metadata_instances = Pending
    /\ NonMdIdle

MetadataNext == ParseMetadataInstances

SpecMetadata == MetadataInit /\ [][MetadataNext]_vars

\* What the objects were built with: whether SOPInstanceUID has a first value
\* that is not blank, and the fields whose tag the object gives.
HasUid(kind) == kind \in {"uid_only", "full", "valueless_view", "legacy_lat"}
FieldsGiven(kind) ==
    CASE kind = "full" -> {"series_uid", "view_position", "laterality", "instance_number"}
      [] kind = "valueless_view" -> {"view_position", "instance_number"}
      [] kind = "legacy_lat" -> {"laterality"}
      [] OTHER -> {}
\* The places of the objects that have a UID, in input order.
RECURSIVE PlacesWithUid(_, _)
PlacesWithUid(kinds, i) ==
    IF i > Len(kinds) THEN <<>>
    ELSE (IF HasUid(kinds[i]) THEN <<i>> ELSE <<>>) \o PlacesWithUid(kinds, i + 1)

\* C16: parse_metadata_instances returns exactly one MetadataInstance per
\* top-level JSON object whose SOPInstanceUID first value is non-blank, in input
\* order, and skips every other object; a field whose tag is not given in the
\* object is absent in the instance.
C16_OneInstancePerObjectWithUid ==
    metadata_instances.done =>
        LET r == Unwrap(metadata_instances.out)
            places == PlacesWithUid(metadata_json, 1)
        IN  /\ r.ok
            /\ Len(r.instances) = Len(places)
            /\ \A k \in 1 .. Len(places) :
                  /\ r.instances[k].instance_uid = <<"u">> \o NatText(places[k])
                  /\ \A f \in {"series_uid", "view_position", "laterality", "instance_number"} :
                        f \notin FieldsGiven(metadata_json[places[k]]) => r.instances[k][f] = None

\* The tag of an element the objects are built from, and the first element of
\* the Value array of its own entry (None without a Value, with an empty array
\* or with null first).
TagOfElement(name) ==
    CASE name \in {"sop", "sop_blank", "sop_empty", "sop_null", "sop_valueless"} -> TAG_SOP_INSTANCE_UID
      [] name = "seq" -> <<"0", "0", "0", "8", "2", "1", "1", "2">>
      [] name \in {"view", "view_valueless"} -> TAG_VIEW_POSITION
      [] name = "series" -> TAG_SERIES_INSTANCE_UID
      [] name = "number" -> TAG_INSTANCE_NUMBER
      [] name = "lat" -> TAG_LATERALITY
      [] name = "image_lat" -> TAG_IMAGE_LATERALITY
OwnFirstValue(name, i) ==
    CASE name = "sop" -> Some(<<"u">> \o NatText(i))
      [] name = "sop_blank" -> Some(<<" ">>)
      [] name = "view" -> Some(<<"C", "C">>)
      [] name = "series" -> Some(<<"1", ".", "2">>)
      [] name = "number" -> Some(<<"7">>)
      [] name = "lat" -> Some(<<"R">>)
      [] name = "image_lat" -> Some(<<"L">>)
      [] OTHER -> None
QueriedTags ==
    { TAG_SOP_INSTANCE_UID, TAG_SERIES_INSTANCE_UID, TAG_INSTANCE_NUMBER,
      TAG_VIEW_POSITION, TAG_IMAGE_LATERALITY, TAG_LATERALITY }
\* What the claim gives for first_tag_string(object, tag).
ValueOfOwnEntry(kind, i, tag) ==
    LET names == ObjectKinds[kind]
        at == { k \in 1 .. Len(names) : TagOfElement(names[k]) = tag }
    IN  IF at = {} THEN None ELSE OwnFirstValue(names[CHOOSE k \in at : TRUE], i)
TagsAnswerOwnEntry(kinds) ==
    \A i \in 1 .. Len(metadata_json) :
        metadata_json[i] \in kinds =>
            \A tag \in QueriedTags :
                first_tag_string(ObjectText(metadata_json[i], i), tag)
                    = ValueOfOwnEntry(metadata_json[i], i, tag)

\* C28: first_tag_string(object, tag) returns the first element of the Value
\* array of that tag's own entry, and absent when the tag is missing, when its
\* entry has no Value, or when its array is empty or starts with null; never a
\* value taken from another tag's entry.
C28_FirstValueOfOwnEntry ==
    metadata_instances.done => TagsAnswerOwnEntry(ObjectKindNames)

\* C28, apart: the same over the objects in which every entry of a queried tag
\* has a Value array.
C28_OwnEntryWhenNothingFollows ==
    metadata_instances.done =>
        TagsAnswerOwnEntry(ObjectKindNames \ {"valueless_sop", "valueless_view"})

----------------------------------------------------------------------------
\* The download of one instance (dicomweb.rs).

\* The endpoints tried: the series-scoped one when the series is known, then the
\* study-scoped one.
urls(series) ==
    (IF IsSome(series) THEN <<[scope |-> "series"]>> ELSE <<>>) \o <<[scope |-> "study"]>>

accepts ==
    << "application/dicom",
       "application/dicom; transfer-syntax=*",
       "multipart/related; type=application/dicom",
       "multipart/related; type=\"application/dicom\"" >>

\* What the server does with one request: it cannot be reached, it answers with
\* a status that is no success, its body cannot be read, or it sends a body.
ReplyBodies == {[kind |-> k, boundary |-> <<66>>, payload |-> <<1, 2>>] : k \in {"plain", "crlf"}}
Replies ==
    {[kind |-> k, body |-> NoBody] : k \in {"unreachable", "status", "cut"}}
        \cup {[kind |-> "ok", body |-> b] : b \in ReplyBodies}

http_get_bytes(reply) ==
    CASE reply.kind = "unreachable" -> [ok |-> FALSE, bytes |-> <<>>, err |-> "HTTP request failed"]
      [] reply.kind = "status" -> [ok |-> FALSE, bytes |-> <<>>, err |-> "HTTP status"]
      [] reply.kind = "cut" -> [ok |-> FALSE, bytes |-> <<>>, err |-> "Could not read response body"]
      [] OTHER -> [ok |-> TRUE, bytes |-> BodyBytes(reply.body), err |-> ""]

\* format!("{url} (Accept: {accept}) => {err:#}")
AttemptMessage(url, accept, err) == [url |-> url, accept |-> accept, err |-> err]
NoAttemptsMessage ==
    [url |-> [scope |-> "none"], accept |-> "", err |-> "no successful download attempts"]

\* last_error = Some(..): the message of an earlier attempt is dropped.
RecordError(previous, message) == Some(message)

\* The place after a failed attempt: the next Accept variant, then the next URL.
NextAttempt(a) ==
    IF a.accept + 1 < Len(accepts) THEN [a EXCEPT !.accept = a.accept + 1]
    ELSE [url |-> a.url + 1, accept |-> 0]

\* Mutant of BreakAttempts: the break leaves the inner loop only.
BreakAccepts(a, series) == [url |-> a.url + 1, accept |-> 0]

\* break 'attempts: both loops are left.
BreakAttempts(a, series) == [url |-> Len(urls(series)), accept |-> 0]

\* One pass of the inner loop: a call of http_get_bytes and what follows from it.
DownloadAttempt ==
    /\ ~instance_path.done
    /\ attempt.url < Len(urls(series_uid))
    /\ \E reply \in Replies :
          LET url == urls(series_uid)[attempt.url + 1]
              accept == accepts[attempt.accept + 1]
              response == http_get_bytes(reply)
          IN  /\ requests' = Append(requests, [url |-> url, accept |-> accept,
                                               ok |-> response.ok, err |-> response.err])
              /\ IF response.ok
                 THEN /\ fetched' = Some(unwrap_dicom_multipart(response.bytes))
                      /\ attempt' = BreakAttempts(attempt, series_uid)
                      /\ UNCHANGED last_error
                 ELSE /\ last_error' = RecordError(last_error, AttemptMessage(url, accept, response.err))
                      /\ attempt' = NextAttempt(attempt)
                      /\ UNCHANGED fetched
    /\ UNCHANGED <<series_uid, instance_path, nonDiVars>>

\* The UID of the instance, and the name of its file.
InstanceUid == <<"1", ".", "2", "/", "x", "_", "-", " ">>
is_ascii_alphanumeric(ch) ==
    \/ Code(ch) \in Code("0") .. Code("9")
    \/ Code(ch) \in Code("A") .. Code("Z")
    \/ Code(ch) \in Code("a") .. Code("z")
sanitize_for_file_name(value) ==
    [i \in 1 .. Len(value) |->
        IF is_ascii_alphanumeric(value[i]) \/ value[i] \in {".", "-", "_"} THEN value[i] ELSE "_"]
DownloadOk(path, bytes) == [ok |-> TRUE, path |-> path, bytes |-> bytes, error |-> "", detail |-> NoAttemptsMessage]
DownloadErr(error, detail) == [ok |-> FALSE, path |-> <<>>, bytes |-> <<>>, error |-> error, detail |-> detail]

\* After the loops: the error of a download that got no body, or the file written.
DownloadInstanceReturn ==
    /\ ~instance_path.done
    /\ attempt.url >= Len(urls(series_uid))
    /\ IF fetched = None
       THEN LET detail == IF last_error = None THEN NoAttemptsMessage ELSE Unwrap(last_error)
            IN  instance_path' = [done |-> TRUE,
                                  out |-> Some(DownloadErr("Failed downloading DICOM instance", detail))]
       ELSE LET path == sanitize_for_file_name(InstanceUid) \o <<".", "d", "c", "m">>
            IN  \E written \in BOOLEAN :
                   instance_path' =
                       [done |-> TRUE,
                        out |-> Some(IF written THEN DownloadOk(path, Unwrap(fetched))
                                     ELSE DownloadErr("Could not write downloaded DICOM file",
                                                      NoAttemptsMessage))]
    /\ UNCHANGED <<series_uid, attempt, last_error, fetched, requests, nonDiVars>>

NonDiIdle == CoreIdle /\ SlIdle /\ MpIdle /\ NbIdle /\ MdIdle /\ DgIdle

DownloadInit ==
    /\ series_uid \in {None, Some(<<"1", ".", "2">>)}
    /\ attempt = NoAttempt
    /\ last_error = None
    /\ fetched = None
    /\ requests = <<>>
    /\ instance_path = Pending
    /\ NonDiIdle

DownloadNext == DownloadAttempt \/ DownloadInstanceReturn

SpecDownload == DownloadInit /\ [][DownloadNext]_vars

\* Every URL candidate crossed with every Accept variant, in the order of the
\* claim: the series-scoped endpoint first when the series is known.
RequestOrder(series) ==
    LET candidates == IF IsSome(series) THEN <<"series", "study">> ELSE <<"study">>
    IN  [i \in 1 .. 4 * Len(candidates) |->
            [url |-> [scope |-> candidates[((i - 1) \div 4) + 1]],
             accept |-> accepts[((i - 1) % 4) + 1]]]

\* C17: download_instance issues its requests in a fixed order (each URL
\* candidate, series-scoped first when a series UID is known, then study-scoped,
\* crossed with each Accept variant in list order), stops at the first successful
\* response and issues no request after it; at most 8 requests are made, 4
\* without a series UID.
C17_RequestsInFixedOrder ==
    /\ Len(requests) <= (IF IsSome(series_uid) THEN 8 ELSE 4)
    /\ \A i \in 1 .. Len(requests) :
          /\ requests[i].url = RequestOrder(series_uid)[i].url
          /\ requests[i].accept = RequestOrder(series_uid)[i].accept
          /\ requests[i].ok => i = Len(requests)
    /\ instance_path.done =>
          \/ Len(requests) = Len(RequestOrder(series_uid))
          \/ requests[Len(requests)].ok

\* A download that failed on the whole series-scoped endpoint and succeeded on
\* the second Accept variant of the study-scoped one.
C17_Witness ==
    /\ instance_path.done
    /\ IsSome(series_uid)
    /\ Len(requests) = 6
    /\ requests[6].ok
    /\ Unwrap(instance_path.out).ok

\* The attempt messages that the text of an error detail holds.
MessagesIn(detail) == {detail}
MessageOf(r) == AttemptMessage(r.url, r.accept, r.err)
AllFailed == instance_path.done /\ \A i \in 1 .. Len(requests) : ~requests[i].ok

\* What the code does for C18: when every attempt fails, the error carries the
\* failure message of the last attempt only (the study-scoped endpoint with the
\* last Accept variant).
C18_ErrorCarriesLastAttempt ==
    AllFailed =>
        LET r == Unwrap(instance_path.out)
            last == requests[Len(requests)]
        IN  /\ ~r.ok
            /\ r.error = "Failed downloading DICOM instance"
            /\ r.detail = MessageOf(last)
            /\ last.url = [scope |-> "study"]
            /\ last.accept = accepts[Len(accepts)]

\* Eight failed attempts, the first and the last with different failures.
C18_Witness ==
    /\ AllFailed
    /\ Len(requests) = 8
    /\ requests[1].err # requests[8].err
    /\ ~Unwrap(instance_path.out).ok

\* C18: when every URL x Accept attempt of download_instance fails, the single
\* error it returns aggregates the failure message of every attempt that was
\* made, not only of one of them.
C18_ErrorAggregatesEveryAttempt ==
    AllFailed =>
        \A i \in 1 .. Len(requests) :
            MessageOf(requests[i]) \in MessagesIn(Unwrap(instance_path.out).detail)

----------------------------------------------------------------------------
\* The grouped download (dicomweb.rs).

\* Bound of the requests explored.
MaxGroups == 2

\* group_series_uids.len() of the groups explored: 1 and 4 are supported.
GroupSizes == {1, 2, 4}

\* The path of the file of instance k (from 0) of group g (from 0).
PathOf(g, k) == <<g, k>>
PathsOf(g, n) == [k \in 1 .. n |-> PathOf(g, k - 1)]

NoFailure == [what |-> "", group_index |-> 0, instance |-> 0]
Failure(what, g, k) == [what |-> what, group_index |-> g, instance |-> k]
GroupedOk(groups, open) == [ok |-> TRUE, groups |-> groups, open_group |-> open, error |-> NoFailure]
GroupedErr(error) == [ok |-> FALSE, groups |-> <<>>, open_group |-> 0, error |-> error]
PathsOk(paths) == [ok |-> TRUE, paths |-> paths, error |-> NoFailure]
PathsErr(error) == [ok |-> FALSE, paths |-> <<>>, error |-> error]

\* What the metadata of the series of a group resolves to: a fetch fails, a
\* series has no instances, reduce_series_instances refuses a series, or the
\* group gets its instances (every series of a group of four gives its first).
Resolutions(size) ==
    {[ok |-> FALSE, what |-> w, count |-> 0] :
        w \in {"Failed fetching DICOMweb metadata", "returned no DICOM instances",
               "did not resolve to a supported instance set"}}
        \cup {[ok |-> TRUE, what |-> "", count |-> n] : n \in (IF size = 1 THEN {1, 4} ELSE {size})}

\* The turn of the loop for the next group, or the end of the function.
NextGroup(g) == [at |-> "group", group_index |-> g, instance |-> 0]
Returned == [at |-> "returned", group_index |-> 0, instance |-> 0]

\* The call: the client and the cache directory are set up, and an empty list
\* of groups is refused.
BeginGroupRequest ==
    /\ progress.at = "idle"
    /\ ~group_result.done
    /\ \E setup_ok \in BOOLEAN :
          IF ~setup_ok
          THEN /\ group_result' = [done |-> TRUE, out |-> Some(GroupedErr(Failure("setup", 0, 0)))]
               /\ progress' = Returned
          ELSE IF group_request.groups = <<>>
          THEN /\ group_result' =
                     [done |-> TRUE,
                      out |-> Some(GroupedErr(Failure("DICOMweb grouped launch requested no groups", 0, 0)))]
               /\ progress' = Returned
          ELSE /\ progress' = NextGroup(0)
               /\ UNCHANGED group_result
    /\ UNCHANGED <<group_request, jobs, delivered, downloaded_groups, nonDgVars>>

\* The head of a turn of the loop: the size of the group is checked, the
\* metadata of its series is fetched and reduced, the number of instances is
\* checked; the background group has its workers spawned.
ResolveGroup ==
    /\ progress.at = "group"
    /\ LET g == progress.group_index
           size == group_request.groups[g + 1]
       IN  IF size # 1 /\ size # 4
           THEN /\ group_result' =
                      [done |-> TRUE, out |-> Some(GroupedErr(Failure("group must contain exactly 1 or 4 series UIDs", g, 0)))]
                /\ progress' = Returned
                /\ UNCHANGED jobs
           ELSE \E res \in Resolutions(size) :
                   IF ~res.ok
                   THEN /\ group_result' = [done |-> TRUE, out |-> Some(GroupedErr(Failure(res.what, g, 0)))]
                        /\ progress' = Returned
                        /\ UNCHANGED jobs
                   ELSE IF res.count # 1 /\ res.count # 4
                   THEN /\ group_result' =
                              [done |-> TRUE, out |-> Some(GroupedErr(Failure("group must resolve to 1 or 4 DICOM instances", g, 0)))]
                        /\ progress' = Returned
                        /\ UNCHANGED jobs
                   ELSE IF g = group_request.open_group
                   THEN /\ jobs' = [k \in 1 .. res.count |-> "todo"]
                        /\ progress' = [at |-> "streaming", group_index |-> g, instance |-> 0]
                        /\ UNCHANGED group_result
                   ELSE /\ jobs' = [k \in 1 .. res.count |-> "running"]
                        /\ progress' = [at |-> "parallel", group_index |-> g, instance |-> 0]
                        /\ UNCHANGED group_result
    /\ UNCHANGED <<group_request, delivered, downloaded_groups, nonDgVars>>

\* downloaded_groups.push(group_paths), and the next turn of the loop or the
\* result of the function.
PushGroup(g, group_paths) ==
    LET pushed == Append(downloaded_groups, group_paths)
    IN  /\ downloaded_groups' = pushed
        /\ IF g + 1 < Len(group_request.groups)
           THEN /\ progress' = NextGroup(g + 1)
                /\ UNCHANGED group_result
           ELSE /\ progress' = Returned
                /\ group_result' =
                       [done |-> TRUE,
                        out |-> Some(GroupedOk(pushed, Min(group_request.open_group, Len(pushed) - 1)))]

\* download_instances_streaming: download_instance for the next instance of the
\* active group. Its file is written, or the function returns its error.
StreamDownload ==
    /\ progress.at = "streaming"
    /\ LET g == progress.group_index
           k == progress.instance
       IN  \E ok \in BOOLEAN :
              IF ok
              THEN /\ jobs' = [jobs EXCEPT ![k + 1] = "ok"]
                   /\ progress' = [progress EXCEPT !.at = "callback"]
                   /\ UNCHANGED group_result
              ELSE /\ jobs' = [jobs EXCEPT ![k + 1] = "err"]
                   /\ progress' = Returned
                   /\ group_result' = [done |-> TRUE, out |-> Some(GroupedErr(Failure("download", g, k)))]
    /\ UNCHANGED <<group_request, delivered, downloaded_groups, nonDgVars>>

\* Mutant of on_path: the path is handed over twice.
on_path_twice(seen, path) == Append(Append(seen, path), path)

\* on_active_path(path): the closure of the caller receives the path.
on_path(seen, path) == Append(seen, path)

\* on_path(path.clone()); paths.push(path); and the next turn, or the end of
\* download_instances_streaming.
StreamCallback ==
    /\ progress.at = "callback"
    /\ LET g == progress.group_index
           k == progress.instance
       IN  /\ delivered' = on_path(delivered, PathOf(g, k))
           /\ IF k + 1 < Len(jobs)
              THEN /\ progress' = [at |-> "streaming", group_index |-> g, instance |-> k + 1]
                   /\ UNCHANGED <<downloaded_groups, group_result>>
              ELSE PushGroup(g, PathsOf(g, Len(jobs)))
    /\ UNCHANGED <<group_request, jobs, nonDgVars>>

\* A worker of download_instances_parallel: download_instance for its instance.
WorkerDownload ==
    /\ progress.at = "parallel"
    /\ \E i \in 1 .. Len(jobs) :
          /\ jobs[i] = "running"
          /\ \E ok \in BOOLEAN : jobs' = [jobs EXCEPT ![i] = IF ok THEN "ok" ELSE "err"]
    /\ UNCHANGED <<group_request, progress, delivered, downloaded_groups, group_result, nonDgVars>>

\* Mutant of CollectOutputs: the paths of the workers that succeeded are
\* returned, the failed ones are left out.
CollectOkOutputs(js, g) ==
    PathsOk(SelectSeq(PathsOf(g, Len(js)), LAMBDA p : js[p[2] + 1] = "ok"))

\* The outputs of the workers, in index order: the paths, or the first error
\* (a worker that panicked gives the error "DICOMweb download worker panicked":
\* the outcome "err" of a job stands for both).
CollectOutputs(js, g) ==
    IF \E i \in 1 .. Len(js) : js[i] = "err"
    THEN LET first == CHOOSE i \in 1 .. Len(js) : js[i] = "err" /\ \A j \in 1 .. i - 1 : js[j] # "err"
         IN  PathsErr(Failure("download", g, first - 1))
    ELSE PathsOk(PathsOf(g, Len(js)))

\* Mutant of JoinWorkers: the workers are not joined, the group is pushed at once.
JoinNoWorker ==
    /\ progress.at = "parallel"
    /\ PushGroup(progress.group_index, PathsOf(progress.group_index, Len(jobs)))
    /\ UNCHANGED <<group_request, jobs, delivered, nonDgVars>>

\* Mutant of JoinWorkers: the function returns as soon as one worker is done.
JoinFirstWorker ==
    /\ progress.at = "parallel"
    /\ \E i \in 1 .. Len(jobs) : jobs[i] # "running"
    /\ LET g == progress.group_index
           group_paths == CollectOutputs(jobs, g)
       IN  IF group_paths.ok
           THEN PushGroup(g, group_paths.paths)
           ELSE /\ progress' = Returned
                /\ group_result' = [done |-> TRUE, out |-> Some(GroupedErr(group_paths.error))]
                /\ UNCHANGED downloaded_groups
    /\ UNCHANGED <<group_request, jobs, delivered, nonDgVars>>

\* The end of download_instances_parallel, once every worker is joined.
JoinWorkers ==
    /\ progress.at = "parallel"
    /\ \A i \in 1 .. Len(jobs) : jobs[i] # "running"
    /\ LET g == progress.group_index
           group_paths == CollectOutputs(jobs, g)
       IN  IF group_paths.ok
           THEN PushGroup(g, group_paths.paths)
           ELSE /\ progress' = Returned
                /\ group_result' = [done |-> TRUE, out |-> Some(GroupedErr(group_paths.error))]
                /\ UNCHANGED downloaded_groups
    /\ UNCHANGED <<group_request, jobs, delivered, nonDgVars>>

NonDgIdle == CoreIdle /\ SlIdle /\ MpIdle /\ NbIdle /\ MdIdle /\ DiIdle

GroupRequests ==
    [groups : UNION {[1 .. n -> GroupSizes] : n \in 0 .. MaxGroups}, open_group : 0 .. MaxGroups]

GroupInit ==
    /\ group_request \in GroupRequests
    /\ progress = NotStarted
    /\ jobs = <<>>
    /\ delivered = <<>>
    /\ downloaded_groups = <<>>
    /\ group_result = Pending
    /\ NonDgIdle

GroupNext ==
    \/ BeginGroupRequest
    \/ ResolveGroup
    \/ StreamDownload
    \/ StreamCallback
    \/ WorkerDownload
    \/ JoinWorkers

SpecGroup == GroupInit /\ [][GroupNext]_vars

\* The active group, the result once the function has returned, and a returned
\* error that comes from the download of an instance.
ActiveGroup == group_request.open_group
GroupOut == Unwrap(group_result.out)
FailedDownload == group_result.done /\ ~GroupOut.ok /\ GroupOut.error.what = "download"
\* The jobs from place from on have not been started.
NotStartedFrom(from) == \A j \in from .. Len(jobs) : jobs[j] = "todo"

\* The callbacks made so far, at every place of the function.
CallbacksInStep ==
    /\ \A i \in 1 .. Len(delivered) : delivered[i] = PathOf(ActiveGroup, i - 1)
    /\ progress.at = "streaming" =>
          /\ progress.group_index = ActiveGroup
          /\ Len(delivered) = progress.instance
          /\ \A j \in 1 .. progress.instance : jobs[j] = "ok"
          /\ NotStartedFrom(progress.instance + 1)
    /\ progress.at = "callback" =>
          /\ progress.group_index = ActiveGroup
          /\ Len(delivered) = progress.instance
          /\ jobs[progress.instance + 1] = "ok"
          /\ NotStartedFrom(progress.instance + 2)
    /\ (progress.at \in {"idle", "group", "parallel"} /\ Len(downloaded_groups) <= ActiveGroup) =>
          delivered = <<>>
    /\ Len(downloaded_groups) > ActiveGroup =>
          /\ Len(delivered) = Len(downloaded_groups[ActiveGroup + 1])
          /\ delivered = downloaded_groups[ActiveGroup + 1]
    /\ (FailedDownload /\ GroupOut.error.group_index = ActiveGroup) =>
          Len(delivered) = GroupOut.error.instance

\* A callback is made for the instance whose file was just written, while no
\* later instance of the group has been started.
CallbackAfterWrite ==
    delivered' # delivered =>
        /\ progress.at = "callback"
        /\ jobs[progress.instance + 1] = "ok"
        /\ NotStartedFrom(progress.instance + 2)
        /\ delivered' = Append(delivered, PathOf(ActiveGroup, progress.instance))

\* C19: for the active group of download_dicomweb_group_request the per-path
\* callback is invoked exactly once per instance, in instance order, each time
\* after that instance's file has been written and before the download of the
\* next instance starts; if instance k fails, the callbacks of the instances
\* before k have already happened and no callback happens afterwards.
C19_CallbackPerInstanceInOrder == []CallbacksInStep /\ [][CallbackAfterWrite]_vars

\* The third instance of an active group of four failed, after two callbacks.
C19_Witness ==
    /\ FailedDownload
    /\ GroupOut.error.group_index = ActiveGroup
    /\ GroupOut.error.instance = 2
    /\ Len(delivered) = 2
    /\ jobs = <<"ok", "ok", "err", "todo">>

\* What the code does for C20: a failed instance download aborts the whole
\* request. No group with a failed instance is pushed; the function returns the
\* error of the first failed instance of that group and no paths of any group,
\* also when the failure is in a background group and the active group was
\* already downloaded; the groups after the failing one are not downloaded. The
\* caller has of the active group what the per-path callback handed over.
C20_FailedDownloadAbortsRequest ==
    /\ \A i \in 1 .. Len(downloaded_groups) :
          /\ Len(downloaded_groups[i]) \in {1, 4}
          /\ downloaded_groups[i] = PathsOf(i - 1, Len(downloaded_groups[i]))
    /\ (progress.at = "returned" /\ \E i \in 1 .. Len(jobs) : jobs[i] = "err") => FailedDownload
    /\ FailedDownload =>
          LET g == GroupOut.error.group_index
          IN  /\ GroupOut.groups = <<>>
              /\ jobs[GroupOut.error.instance + 1] = "err"
              /\ \A j \in 1 .. GroupOut.error.instance : jobs[j] = "ok"
              /\ Len(downloaded_groups) = g
              /\ ActiveGroup < g => delivered = downloaded_groups[ActiveGroup + 1]
              /\ ActiveGroup > g => delivered = <<>>

\* The active group of four was downloaded and handed over, then an instance of
\* the background group after it failed.
C20_Witness ==
    /\ FailedDownload
    /\ ActiveGroup = 0
    /\ GroupOut.error.group_index = 1
    /\ Len(delivered) = 4
    /\ Len(downloaded_groups) = 1

\* C20: a failed instance download aborts only the group it belongs to: when the
\* failure is in a background (non-active) group, the active group that was
\* already downloaded is not aborted and its paths are still delivered to the
\* caller in the result of download_dicomweb_group_request.
C20_BackgroundFailureKeepsActiveGroup ==
    (FailedDownload /\ GroupOut.error.group_index # ActiveGroup
                    /\ ActiveGroup < Len(downloaded_groups)) =>
        /\ ActiveGroup < Len(GroupOut.groups)
        /\ GroupOut.groups[ActiveGroup + 1] = downloaded_groups[ActiveGroup + 1]

\* The request has no group, or a group whose number of series UIDs is neither
\* 1 nor 4.
BadRequest ==
    \/ group_request.groups = <<>>
    \/ \E i \in 1 .. Len(group_request.groups) : group_request.groups[i] \notin {1, 4}

\* The result of the function, once it has returned.
ResultShape ==
    /\ progress.at = "returned" <=> group_result.done
    /\ group_result.done =>
          IF GroupOut.ok
          THEN /\ ~BadRequest
               /\ Len(GroupOut.groups) = Len(group_request.groups)
               /\ GroupOut.groups = downloaded_groups
               /\ \A i \in 1 .. Len(GroupOut.groups) :
                     LET n == Len(GroupOut.groups[i])
                     IN  /\ n \in {1, 4}
                         /\ group_request.groups[i] = 4 => n = 4
                         /\ GroupOut.groups[i] = PathsOf(i - 1, n)
          ELSE /\ GroupOut.groups = <<>>
               /\ GroupOut.error # NoFailure

\* A group is pushed whole: the list pushed holds the path of every instance
\* the group resolved to, each of them downloaded.
PushedWhole ==
    downloaded_groups' # downloaded_groups =>
        /\ progress.at \in {"callback", "parallel"}
        /\ Len(downloaded_groups) = progress.group_index
        /\ \A j \in 1 .. Len(jobs) : jobs[j] = "ok"
        /\ downloaded_groups' =
               Append(downloaded_groups, PathsOf(progress.group_index, Len(jobs)))

\* The head of a turn of the loop goes on to the downloads only with a group of
\* 1 or 4 series that resolved to 1 or 4 instances; otherwise the function
\* returns an error, which names the group.
ResolvedOrFailed ==
    progress.at = "group" =>
        \/ /\ progress'.at \in {"streaming", "parallel"}
           /\ group_request.groups[progress.group_index + 1] \in {1, 4}
           /\ Len(jobs') \in {1, 4}
           /\ ~group_result'.done
        \/ /\ progress'.at = "returned"
           /\ group_result'.done
           /\ ~Unwrap(group_result'.out).ok
           /\ Unwrap(group_result'.out).error.group_index = progress.group_index
           /\ Unwrap(group_result'.out).error.what \in
                  {"group must contain exactly 1 or 4 series UIDs",
                   "Failed fetching DICOMweb metadata", "returned no DICOM instances",
                   "did not resolve to a supported instance set",
                   "group must resolve to 1 or 4 DICOM instances"}

\* C31: on success download_dicomweb_group_request returns exactly one path list
\* per requested group, in request order, each holding 1 or 4 paths; a group is
\* never returned partially downloaded; the call fails when the request has no
\* groups, when a group has a number of series UIDs other than 1 or 4, or when
\* any series returns no instances or cannot be reduced.
C31_OneWholeListPerGroup ==
    []ResultShape /\ [][PushedWhole /\ ResolvedOrFailed]_vars

\* Two groups returned, the active one of one instance and a background one of
\* four.
C31_Witness ==
    /\ group_result.done
    /\ GroupOut.ok
    /\ group_request.groups = <<1, 4>>
    /\ Len(GroupOut.groups) = 2
    /\ Len(GroupOut.groups[2]) = 4

\* The workers of download_instances_parallel: one per instance, all started
\* together.
OneWorkerPerInstance ==
    /\ progress.at = "parallel" => \A j \in 1 .. Len(jobs) : jobs[j] # "todo"
    /\ (progress.at = "group" /\ progress'.at = "parallel") =>
          /\ Len(jobs') \in {1, 4}
          /\ \A j \in 1 .. Len(jobs') : jobs'[j] = "running"

\* download_instances_parallel returns with every worker done: the paths in
\* the order of the instances, or an error and no paths.
ParallelReturn ==
    (progress.at = "parallel" /\ progress'.at # "parallel") =>
        /\ \A j \in 1 .. Len(jobs) : jobs[j] \in {"ok", "err"}
        /\ IF \E j \in 1 .. Len(jobs) : jobs[j] = "err"
           THEN /\ downloaded_groups' = downloaded_groups
                /\ group_result'.done
                /\ ~Unwrap(group_result'.out).ok
                /\ Unwrap(group_result'.out).groups = <<>>
           ELSE /\ Len(downloaded_groups') = Len(downloaded_groups) + 1
                /\ LET paths == downloaded_groups'[Len(downloaded_groups')]
                   IN  /\ Len(paths) = Len(jobs)
                       /\ \A j \in 1 .. Len(jobs) :
                             paths[j] = PathOf(progress.group_index, j - 1)

\* C32: download_instances_parallel starts one worker per instance and returns
\* only after every worker has finished; on success the returned paths are in
\* the same order as the input instances whatever the completion order; if any
\* worker failed or panicked it returns an error and no path list.
C32_AllWorkersJoinedInOrder ==
    [][OneWorkerPerInstance /\ ParallelReturn]_vars

\* The last worker of a background group of four finished before the first.
C32_Witness ==
    /\ progress.at = "parallel"
    /\ Len(jobs) = 4
    /\ jobs[1] = "running"
    /\ jobs[4] = "ok"


\* What the code does for C37: the returned open_group is the requested one
\* limited to the last returned group, but the group that is streamed is the
\* one whose index equals the requested value. For a requested index inside the
\* request the callback paths are the paths of groups[open_group]; for a larger
\* one no group is streamed, no callback is made, and open_group names the last
\* group, which was downloaded by the parallel workers.
C37_CallbackPathsWhenInRange ==
    (group_result.done /\ GroupOut.ok) =>
        /\ GroupOut.open_group < Len(GroupOut.groups)
        /\ GroupOut.open_group = Min(ActiveGroup, Len(GroupOut.groups) - 1)
        /\ IF ActiveGroup < Len(group_request.groups)
           THEN delivered = GroupOut.groups[GroupOut.open_group + 1]
           ELSE delivered = <<>>

\* A request of two groups whose second is the active one, returned.
C37_Witness ==
    /\ group_result.done
    /\ GroupOut.ok
    /\ ActiveGroup = 1
    /\ GroupOut.open_group = 1
    /\ Len(delivered) = 4

InLoop == progress.at \in {"group", "streaming", "callback", "parallel"}

\* The groups are handled one after the other: at group j exactly the groups
\* before j are downloaded, each of them whole, and the only downloads in
\* progress are those of group j.
GroupsInTurn ==
    /\ InLoop => Len(downloaded_groups) = progress.group_index
    /\ \A i \in 1 .. Len(downloaded_groups) :
          /\ Len(downloaded_groups[i]) \in {1, 4}
          /\ downloaded_groups[i] = PathsOf(i - 1, Len(downloaded_groups[i]))
    /\ progress.at = "group" => \A j \in 1 .. Len(jobs) : jobs[j] = "ok"
    /\ delivered # <<>> =>
          /\ Len(downloaded_groups) >= ActiveGroup
          /\ InLoop => progress.group_index >= ActiveGroup
    /\ (InLoop /\ progress.group_index > ActiveGroup) =>
          /\ Len(delivered) \in {1, 4}
          /\ delivered = downloaded_groups[ActiveGroup + 1]

\* The head of the turn of group j (its metadata fetches) and each start of a
\* download of group j come after every download of the groups before j.
StartsAfterEarlierGroups ==
    /\ (progress'.at = "group" /\ progress' # progress) =>
          /\ Len(downloaded_groups') = progress'.group_index
          /\ \A j \in 1 .. Len(jobs') : jobs'[j] = "ok"
    /\ jobs' # jobs =>
          /\ InLoop
          /\ Len(downloaded_groups) = progress.group_index
          /\ \A j \in 1 .. Len(jobs') : jobs'[j] # "ok" => jobs'[j] \in {"todo", "running", "err"}
    /\ (delivered = <<>> /\ delivered' # <<>>) =>
          /\ Len(downloaded_groups) = ActiveGroup
          /\ progress.group_index = ActiveGroup

\* C38: download_dicomweb_group_request processes groups strictly sequentially
\* in request order: no metadata fetch or download of group j starts before
\* every download of each group i < j has finished, so the active group's first
\* callback happens only after all lower-indexed groups are fully downloaded
\* and no higher-indexed group starts before the active group is complete.
C38_GroupsStrictlyInTurn == []GroupsInTurn /\ [][StartsAfterEarlierGroups]_vars

\* The active group is the second of two: its second instance is being
\* downloaded, the four files of the first group are there.
C38_Witness ==
    /\ progress.at = "streaming"
    /\ progress.group_index = 1
    /\ ActiveGroup = 1
    /\ Len(delivered) = 1
    /\ Len(downloaded_groups) = 1
    /\ Len(downloaded_groups[1]) = 4


----------------------------------------------------------------------------
\* read_explicit_vr_element_length on its own: one File Meta element of every
\* VR, at the head of the buffer or behind other bytes, whole or cut short.

Letters == <<"A","B","C","D","E","F","G","H","I","J","K","L","M",
             "N","O","P","Q","R","S","T","U","V","W","X","Y","Z">>
\* b'X' for an upper-case letter.
AsciiOf(c) == 64 + CHOOSE i \in 1..Len(Letters) : Letters[i] = c
VrBytes(name) == <<AsciiOf(name[1]), AsciiOf(name[2])>>

VrNames ==
    { <<"A","E">>, <<"A","S">>, <<"A","T">>, <<"C","S">>, <<"D","A">>, <<"D","S">>,
      <<"D","T">>, <<"F","L">>, <<"F","D">>, <<"I","S">>, <<"L","O">>, <<"L","T">>,
      <<"O","B">>, <<"O","D">>, <<"O","F">>, <<"O","L">>, <<"O","W">>, <<"P","N">>,
      <<"S","H">>, <<"S","L">>, <<"S","Q">>, <<"S","S">>, <<"S","T">>, <<"T","M">>,
      <<"U","C">>, <<"U","I">>, <<"U","L">>, <<"U","N">>, <<"U","R">>, <<"U","S">>,
      <<"U","T">> }

\* Bytes 6..8 of the element: the 16-bit length, or the two reserved bytes.
ShortLens == { <<0, 0>>, <<4, 0>>, <<1, 1>> }
\* Bytes 8..12 of the element: the 32-bit length, the start of the value, or nothing.
LongLens == { <<>>, <<2, 0, 0, 0>>, <<0, 3, 0, 0>>, U32_MAX_LE }
Positions == { 0, 3 }

ElementInputs ==
    [vr : VrNames, short_len : ShortLens, long_len : LongLens, position : Positions]

\* The buffer: position bytes of something else, then tag (0002,0010), the VR and the length fields.
ElementBuffer(e) ==
    [i \in 1..e.position |-> 0] \o <<2, 0, 16, 0>> \o VrBytes(e.vr) \o e.short_len \o e.long_len

ReadElementLength ==
    /\ ~element_length.done
    /\ element_length' = [done |-> TRUE,
                          out  |-> read_explicit_vr_element_length(
                                       ElementBuffer(element), element.position, VrBytes(element.vr))]
    /\ UNCHANGED <<element, nonElVars>>

ElementInit ==
    /\ element \in ElementInputs
    /\ element_length = Pending
    /\ FsIdle
    /\ RpIdle
    /\ LdIdle
    /\ PpIdle
    /\ JsIdle
    /\ LqIdle
    /\ UiIdle
    /\ HsIdle
    /\ WbIdle

ElementNext == ReadElementLength

SpecElement == ElementInit /\ [][ElementNext]_vars

\* The length fields of the element are all in the buffer and do not say "undefined".
LongLengthGiven == element.long_len # <<>> /\ element.long_len # U32_MAX_LE
Len16 == u16_from_le_bytes(element.short_len[1], element.short_len[2])
Len32 == u32_from_le_bytes(element.long_len[1], element.long_len[2],
                           element.long_len[3], element.long_len[4])
\* header_len + value_len, as scan_file_meta_end adds them.
EncodedLength == element_length.out[1][1] + element_length.out[1][2]

ElementLengthFor(family) ==
    element_length.done =>
        IF element.vr \in family
        THEN LongLengthGiven =>
                 /\ IsSome(element_length.out)
                 /\ Unwrap(element_length.out) = <<12, Len32>>
                 /\ EncodedLength = 12 + Len32
        ELSE /\ IsSome(element_length.out)
             /\ Unwrap(element_length.out) = <<8, Len16>>
             /\ EncodedLength = 8 + Len16

\* C27 (as amended): the encoded length of a File Meta element is 12 bytes of
\* header plus its 32-bit length for the VRs OB, OD, OF, OL, OW, SQ, UC, UR, UT
\* and UN, and 8 bytes of header plus its 16-bit length for every other VR.
C27_EncodedLengthByVR ==
    ElementLengthFor({ <<"O","B">>, <<"O","D">>, <<"O","F">>, <<"O","L">>, <<"O","W">>,
                       <<"S","Q">>, <<"U","C">>, <<"U","R">>, <<"U","T">>, <<"U","N">> })

\* C27 witness: an OW element behind three other bytes was read with a 12-byte
\* header and the 32-bit length 768.
C27_Witness ==
    /\ element_length.done
    /\ element.vr = <<"O","W">>
    /\ element.position = 3
    /\ element.long_len = <<0, 3, 0, 0>>
    /\ element_length.out = Some(<<12, 768>>)

\* C27 (as stated): 12 bytes of header plus the 32-bit length for OB, OD, OF,
\* OL, SQ, UC, UR, UT and UN, and 8 bytes plus the 16-bit length for every
\* other VR, OW among them.
C27_EncodedLengthWithoutOW ==
    ElementLengthFor({ <<"O","B">>, <<"O","D">>, <<"O","F">>, <<"O","L">>,
                       <<"S","Q">>, <<"U","C">>, <<"U","R">>, <<"U","T">>, <<"U","N">> })


----------------------------------------------------------------------------
\* split_top_level_json_objects on its own, over every short text of braces,
\* quotes and backslashes.

MaxJsonLen == 7
JsonChars == {"{", "}", QUOTE, BACKSLASH}
JsonInputs == UNION {[1 .. n -> JsonChars] : n \in 0 .. MaxJsonLen}

SplitObjects ==
    /\ ~json_objects.done
    /\ json_objects' = [done |-> TRUE, out |-> split_top_level_json_objects(json_input)]
    /\ UNCHANGED <<json_input, nonJsVars>>

SplitInit ==
    /\ json_input \in JsonInputs
    /\ json_objects = Pending
    /\ FsIdle
    /\ RpIdle
    /\ LdIdle
    /\ PpIdle
    /\ ElIdle
    /\ LqIdle
    /\ UiIdle
    /\ HsIdle
    /\ WbIdle

SplitNext == SplitObjects

SpecSplit == SplitInit /\ [][SplitNext]_vars

\* The text read as JSON, with no automaton.  A quote at index j (from 0) opens
\* a string when the quotes that count before it are even in number; inside a
\* string it closes the string when the backslashes directly before it, back to
\* the opening quote, are even in number.
RECURSIVE CountingQuotes(_, _)
CountingQuotes(t, i) ==
    IF i = 0 THEN {}
    ELSE LET before == CountingQuotes(t, i - 1)
             j == i - 1
             opening == CHOOSE q \in before : \A r \in before : r <= q
             slashes == CHOOSE n \in 0 .. j :
                            /\ \A k \in j - n .. j - 1 : At(t, k) = BACKSLASH
                            /\ (j - n - 1 = opening \/ At(t, j - n - 1) # BACKSLASH)
         IN  IF At(t, j) # QUOTE THEN before
             ELSE IF Cardinality(before) % 2 = 0 THEN before \cup {j}
             ELSE IF slashes % 2 = 0 THEN before \cup {j}
             ELSE before
\* Index i lies inside a string literal (its quotes apart).
InsideString(t, i) == Cardinality(CountingQuotes(t, i)) % 2 = 1
Braces(t, ch, i) == {j \in 0 .. i - 1 : At(t, j) = ch /\ ~InsideString(t, j)}
\* The depth before index i.
DepthAt(t, i) == Cardinality(Braces(t, "{", i)) - Cardinality(Braces(t, "}", i))
StrayClose(t) == \E j \in Braces(t, "}", Len(t)) : DepthAt(t, j) = 0
Unclosed(t) ==
    ~StrayClose(t) /\ \E j \in Braces(t, "{", Len(t)) : \A k \in j + 1 .. Len(t) : DepthAt(t, k) > DepthAt(t, j)
UnterminatedString(t) == InsideString(t, Len(t))
\* The '{' that open a depth-0 object, and the '}' matching one.
TopOpens(t) == {j \in Braces(t, "{", Len(t)) : DepthAt(t, j) = 0}
MatchOf(t, j) ==
    CHOOSE e \in Braces(t, "}", Len(t)) :
        /\ e > j
        /\ DepthAt(t, e + 1) = 0
        /\ \A k \in j + 1 .. e : DepthAt(t, k) > 0
RECURSIVE TopObjects(_, _)
TopObjects(t, opens) ==
    IF opens = {} THEN <<>>
    ELSE LET last == CHOOSE j \in opens : \A k \in opens : k <= j
         IN  Append(TopObjects(t, opens \ {last}), Slice(t, last, MatchOf(t, last) + 1))

\* C29: split_top_level_json_objects returns, in input order, one slice per
\* depth-0 object, from its '{' to the matching '}'; braces inside string
\* literals, also after escaped quotes, do not count; it fails on a '}' at depth
\* 0, on an unclosed '{' and on an unterminated string.
C29_SplitsTopLevelObjects ==
    json_objects.done =>
        IF StrayClose(json_input) \/ Unclosed(json_input) \/ UnterminatedString(json_input)
        THEN json_objects.out[1] = "Err"
        ELSE json_objects.out = <<"Ok", TopObjects(json_input, TopOpens(json_input))>>

\* C29 witness: a string with an escaped quote and a brace, then an object: the
\* object alone is returned.
C29_Witness ==
    /\ json_objects.done
    /\ json_input = <<QUOTE, BACKSLASH, QUOTE, "{", QUOTE, "{", "}">>
    /\ json_objects.out = <<"Ok", << <<"{", "}">> >> >>


----------------------------------------------------------------------------
\* parse_perspecta_uri (launch.rs).

\* str::to_ascii_lowercase
to_ascii_lowercase(t) ==
    [i \in 1 .. Len(t) |->
        IF Code(t[i]) >= 65 /\ Code(t[i]) <= 90 THEN Ascii[Code(t[i]) + 32 - 31] ELSE t[i]]

\* str::split(ch): the pieces between the separators, one more than there are separators.
RECURSIVE split(_, _)
split(t, ch) ==
    LET at == find(t, <<ch>>)
    IN  IF at = None THEN <<t>>
        ELSE <<Slice(t, 0, Unwrap(at))>> \o split(Slice(t, Unwrap(at) + 1, Len(t)), ch)

\* str::split_once(ch): Some(<<before, after>>) or None.
split_once(t, ch) ==
    LET at == find(t, <<ch>>)
    IN  IF at = None THEN None
        ELSE Some(<<Slice(t, 0, Unwrap(at)), Slice(t, Unwrap(at) + 1, Len(t))>>)

strip_perspecta_scheme(uri) ==
    LET prefix == <<"p", "e", "r", "s", "p", "e", "c", "t", "a", ":", "/", "/">>
    IN  IF Len(uri) >= Len(prefix)
           /\ to_ascii_lowercase(Slice(uri, 0, Len(prefix))) = to_ascii_lowercase(prefix)
        THEN Some(Slice(uri, Len(prefix), Len(uri)))
        ELSE None

\* (location, query)
split_location_and_query(value) ==
    LET parts == split_once(value, "?")
    IN  IF parts # None THEN <<Unwrap(parts)[1], Some(Unwrap(parts)[2])>> ELSE <<value, None>>

\* Some(value of the hex digit) or None.
decode_hex_digit(ch) == IF HexValueOf(ch) < 0 THEN None ELSE Some(HexValueOf(ch))

\* Result<String, String>: the bytes 0x20..0x7E decode to their characters; a
\* byte from 0x80 on, never followed by another such byte in the texts explored,
\* is no UTF-8; a control byte is kept as "^".
TextOk(t) == [ok |-> TRUE, text |-> t, err |-> ""]
TextErr(message) == [ok |-> FALSE, text |-> <<>>, err |-> message]
RECURSIVE percent_decode(_)
percent_decode(value) ==
    IF value = <<>> THEN TextOk(<<>>)
    ELSE IF Head(value) = "+"
    THEN LET rest == percent_decode(Tail(value))
         IN  IF rest.ok THEN TextOk(<<" ">> \o rest.text) ELSE rest
    ELSE IF Head(value) = "%"
    THEN IF Len(value) <= 2 THEN TextErr("Invalid percent-encoding in URL.")
         ELSE LET hi == decode_hex_digit(value[2])
                  lo == decode_hex_digit(value[3])
                  byte == Unwrap(hi) * 16 + Unwrap(lo)
                  rest == percent_decode(SubSeq(value, 4, Len(value)))
              IN  IF hi = None \/ lo = None THEN TextErr("Invalid percent-encoding in URL.")
                  ELSE IF ~rest.ok THEN rest
                  ELSE IF byte >= 128 THEN TextErr("URL contains invalid UTF-8 after decoding.")
                  ELSE IF byte < 32 \/ byte = 127 THEN TextOk(<<"^">> \o rest.text)
                  ELSE TextOk(<<Ascii[byte - 31]>> \o rest.text)
    ELSE LET rest == percent_decode(Tail(value))
         IN  IF rest.ok THEN TextOk(<<Head(value)>> \o rest.text) ELSE rest

\* Result<Option<String>, String>
parse_location_path(raw_location) ==
    LET location == trim(raw_location)
        lower == to_ascii_lowercase(location)
        decoded == percent_decode(Slice(location, 5, Len(location)))
        whole == percent_decode(location)
    IN  IF location = <<>> \/ location = <<"/">> THEN [ok |-> TRUE, path |-> None, err |-> ""]
        ELSE IF lower = <<"o", "p", "e", "n">> THEN [ok |-> TRUE, path |-> None, err |-> ""]
        ELSE IF starts_with(lower, <<"o", "p", "e", "n", "/">>)
        THEN IF ~decoded.ok THEN [ok |-> FALSE, path |-> None, err |-> decoded.err]
             ELSE IF trim(decoded.text) = <<>> THEN [ok |-> TRUE, path |-> None, err |-> ""]
             ELSE [ok |-> TRUE, path |-> Some(decoded.text), err |-> ""]
        ELSE IF ~whole.ok THEN [ok |-> FALSE, path |-> None, err |-> whole.err]
        ELSE [ok |-> TRUE, path |-> Some(whole.text), err |-> ""]

split_path_list(value) ==
    IF contains(value, <<"|">>) THEN split(value, "|") ELSE split(value, ",")

\* split_path_list(..).filter(|path| !path.trim().is_empty())
NonBlank(list) == SelectSeq(list, LAMBDA entry : trim(entry) # <<>>)
Trimmed(list) == [i \in 1 .. Len(list) |-> trim(list[i])]

\* The segments after /studies/, from the i-th one (from 1) on.
RECURSIVE ScanSegments(_, _, _)
ScanSegments(segments, i, found) ==
    IF i > Len(segments) THEN found
    ELSE LET name == to_ascii_lowercase(segments[i])
             field == IF name = <<"s", "t", "u", "d", "i", "e", "s">> THEN "study_uid"
                      ELSE IF name = <<"s", "e", "r", "i", "e", "s">> THEN "series_uid"
                      ELSE IF name = <<"i", "n", "s", "t", "a", "n", "c", "e", "s">> THEN "instance_uid" ELSE "none"
         IN  IF field # "none" /\ i + 1 <= Len(segments)
             THEN ScanSegments(segments, i + 2, [found EXCEPT ![field] = Some(segments[i + 1])])
             ELSE ScanSegments(segments, i + 1, found)

parse_dicomweb_value(value) ==
    LET without_query == trim_end_slashes(strip_query_and_fragment(trim(value)))
        nothing == [base_url |-> <<>>, study_uid |-> None, series_uid |-> None, instance_uid |-> None]
        studies_index == find(to_ascii_lowercase(without_query), <<"/", "s", "t", "u", "d", "i", "e", "s", "/">>)
        remainder == Slice(without_query, Unwrap(studies_index) + 1, Len(without_query))
        segments == NonBlank(split(remainder, "/"))
    IN  IF without_query = <<>> THEN nothing
        ELSE IF studies_index = None THEN [nothing EXCEPT !.base_url = without_query]
        ELSE ScanSegments(segments, 1,
                 [nothing EXCEPT !.base_url = trim_end_slashes(Slice(without_query, 0, Unwrap(studies_index)))])

\* The locals of parse_perspecta_uri, and the error it has returned with.
NoLaunchLocals ==
    [raw_paths |-> <<>>, grouped_paths |-> <<>>, grouped_series_uids |-> <<>>,
     dicomweb_base |-> None, study_uid |-> None, series_uid |-> None, instance_uid |-> None,
     dicomweb_username |-> None, dicomweb_password |-> None, open_group |-> None, err |-> ""]

\* Option: Some(value.trim()) for a value that is not blank, else what there was.
SetUnlessBlank(old, value) == IF trim(value) # <<>> THEN Some(trim(value)) ELSE old

\* The groups of a groups= value, blank entries and empty groups left out.
RECURSIVE GroupsOf(_)
GroupsOf(pieces) ==
    IF pieces = <<>> THEN <<>>
    ELSE LET grouped == NonBlank(split_path_list(Head(pieces)))
         IN  (IF grouped # <<>> THEN <<grouped>> ELSE <<>>) \o GroupsOf(Tail(pieces))

\* One turn of the loop over query_string.split('&').
QueryPair(l, pair) ==
    LET parts == split_once(pair, "=")
        key == to_ascii_lowercase(trim(IF parts = None THEN pair ELSE Unwrap(parts)[1]))
        decoded == percent_decode(IF parts = None THEN <<>> ELSE Unwrap(parts)[2])
        decoded_value == decoded.text
        group == NonBlank(split_path_list(decoded_value))
        parsed_index == parse_usize(trim(decoded_value))
        parsed == parse_dicomweb_value(trim(decoded_value))
        auth == split_once(trim(decoded_value), ":")
    IN  IF pair = <<>> THEN l
        ELSE IF ~decoded.ok THEN [l EXCEPT !.err = decoded.err]
        ELSE IF key \in {<<"p", "a", "t", "h">>, <<"f", "i", "l", "e">>}
        THEN IF trim(decoded_value) # <<>> THEN [l EXCEPT !.raw_paths = Append(@, decoded_value)] ELSE l
        ELSE IF key \in {<<"p", "a", "t", "h", "s">>, <<"f", "i", "l", "e", "s">>}
        THEN [l EXCEPT !.raw_paths = @ \o group]
        ELSE IF key = <<"g", "r", "o", "u", "p">>
        THEN IF group # <<>> THEN [l EXCEPT !.grouped_paths = Append(@, group)] ELSE l
        ELSE IF key = <<"g", "r", "o", "u", "p", "s">>
        THEN [l EXCEPT !.grouped_paths = @ \o GroupsOf(split(decoded_value, ";"))]
        ELSE IF key \in {<<"g", "r", "o", "u", "p", "_", "s", "e", "r", "i", "e", "s">>, <<"g", "r", "o", "u", "p", "s", "e", "r", "i", "e", "s">>, <<"s", "e", "r", "i", "e", "s", "_", "g", "r", "o", "u", "p">>}
        THEN IF group # <<>> THEN [l EXCEPT !.grouped_series_uids = Append(@, Trimmed(group))] ELSE l
        ELSE IF key \in {<<"o", "p", "e", "n", "_", "g", "r", "o", "u", "p">>, <<"o", "p", "e", "n", "g", "r", "o", "u", "p">>, <<"a", "c", "t", "i", "v", "e", "_", "g", "r", "o", "u", "p">>, <<"g", "r", "o", "u", "p", "_", "i", "n", "d", "e", "x">>}
        THEN IF trim(decoded_value) = <<>> THEN l
             ELSE IF parsed_index = None THEN [l EXCEPT !.err = "open_group must be a non-negative integer."]
             ELSE [l EXCEPT !.open_group = parsed_index]
        ELSE IF key \in {<<"d", "i", "c", "o", "m", "w", "e", "b">>, <<"d", "i", "c", "o", "m", "w", "e", "b", "_", "u", "r", "l">>, <<"b", "a", "s", "e", "_", "u", "r", "l">>, <<"w", "a", "d", "o", "_", "b", "a", "s", "e">>}
        THEN IF trim(decoded_value) = <<>> THEN l
             ELSE IF parsed.base_url = <<>>
             THEN [l EXCEPT !.err = "DICOMweb URL must include a server base URL."]
             ELSE [l EXCEPT !.dicomweb_base = Some(parsed.base_url),
                            !.study_uid = IF @ = None THEN parsed.study_uid ELSE @,
                            !.series_uid = IF @ = None THEN parsed.series_uid ELSE @,
                            !.instance_uid = IF @ = None THEN parsed.instance_uid ELSE @]
        ELSE IF key \in {<<"s", "t", "u", "d", "y">>, <<"s", "t", "u", "d", "y", "u", "i", "d">>, <<"s", "t", "u", "d", "y", "i", "n", "s", "t", "a", "n", "c", "e", "u", "i", "d">>, <<"s", "t", "u", "d", "y", "_", "i", "n", "s", "t", "a", "n", "c", "e", "_", "u", "i", "d">>}
        THEN [l EXCEPT !.study_uid = SetUnlessBlank(@, decoded_value)]
        ELSE IF key \in {<<"s", "e", "r", "i", "e", "s">>, <<"s", "e", "r", "i", "e", "s", "u", "i", "d">>, <<"s", "e", "r", "i", "e", "s", "i", "n", "s", "t", "a", "n", "c", "e", "u", "i", "d">>, <<"s", "e", "r", "i", "e", "s", "_", "i", "n", "s", "t", "a", "n", "c", "e", "_", "u", "i", "d">>}
        THEN [l EXCEPT !.series_uid = SetUnlessBlank(@, decoded_value)]
        ELSE IF key \in {<<"i", "n", "s", "t", "a", "n", "c", "e">>, <<"i", "n", "s", "t", "a", "n", "c", "e", "u", "i", "d">>, <<"s", "o", "p", "i", "n", "s", "t", "a", "n", "c", "e", "u", "i", "d">>, <<"s", "o", "p", "_", "i", "n", "s", "t", "a", "n", "c", "e", "_", "u", "i", "d">>}
        THEN [l EXCEPT !.instance_uid = SetUnlessBlank(@, decoded_value)]
        ELSE IF key \in {<<"u", "s", "e", "r">>, <<"u", "s", "e", "r", "n", "a", "m", "e">>, <<"d", "i", "c", "o", "m", "w", "e", "b", "_", "u", "s", "e", "r">>, <<"d", "i", "c", "o", "m", "w", "e", "b", "_", "u", "s", "e", "r", "n", "a", "m", "e">>}
        THEN [l EXCEPT !.dicomweb_username = SetUnlessBlank(@, decoded_value)]
        ELSE IF key \in {<<"p", "a", "s", "s">>, <<"p", "a", "s", "s", "w", "o", "r", "d">>, <<"d", "i", "c", "o", "m", "w", "e", "b", "_", "p", "a", "s", "s">>, <<"d", "i", "c", "o", "m", "w", "e", "b", "_", "p", "a", "s", "s", "w", "o", "r", "d">>}
        THEN [l EXCEPT !.dicomweb_password = SetUnlessBlank(@, decoded_value)]
        ELSE IF key \in {<<"a", "u", "t", "h">>, <<"d", "i", "c", "o", "m", "w", "e", "b", "_", "a", "u", "t", "h">>}
        THEN IF trim(decoded_value) = <<>> THEN l
             ELSE IF auth = None
             THEN [l EXCEPT !.err = "auth must be encoded as username:password (percent-encoded)."]
             ELSE [l EXCEPT !.dicomweb_username = SetUnlessBlank(@, Unwrap(auth)[1]),
                            !.dicomweb_password = SetUnlessBlank(@, Unwrap(auth)[2])]
        ELSE l

RECURSIVE QueryPairs(_, _)
QueryPairs(l, pairs) ==
    IF pairs = <<>> \/ l.err # "" THEN l
    ELSE QueryPairs(QueryPair(l, Head(pairs)), Tail(pairs))

\* Result<LaunchRequest, String>
LaunchErr(message) ==
    [kind |-> "Err", err |-> message, paths |-> <<>>, groups |-> <<>>, open_group |-> 0,
     base_url |-> <<>>, study_uid |-> <<>>, series_uid |-> None, instance_uid |-> None,
     username |-> None, password |-> None]
LocalPaths(paths) == [LaunchErr("") EXCEPT !.kind = "LocalPaths", !.paths = paths]
LocalGroups(groups, given) ==
    [LaunchErr("") EXCEPT !.kind = "LocalGroups", !.groups = groups, !.open_group = given]
DicomWebGroups(l, given) ==
    [LaunchErr("") EXCEPT !.kind = "DicomWebGroups", !.groups = l.grouped_series_uids,
                          !.open_group = given, !.base_url = Unwrap(l.dicomweb_base),
                          !.study_uid = Unwrap(l.study_uid), !.username = l.dicomweb_username,
                          !.password = l.dicomweb_password]
DicomWeb(l) ==
    [LaunchErr("") EXCEPT !.kind = "DicomWeb", !.base_url = Unwrap(l.dicomweb_base),
                          !.study_uid = Unwrap(l.study_uid), !.series_uid = l.series_uid,
                          !.instance_uid = l.instance_uid, !.username = l.dicomweb_username,
                          !.password = l.dicomweb_password]

\* group.len() != 1 && group.len() != 4, for some group
BadGroup(groups) == \E i \in 1 .. Len(groups) : Len(groups[i]) # 1 /\ Len(groups[i]) # 4

open_group_as_given(open_group, count) == IF open_group = None THEN 0 ELSE Unwrap(open_group)

\* open_group.unwrap_or(0).min(groups.len().saturating_sub(1))
open_group_index(open_group, count) ==
    Min(IF open_group = None THEN 0 ELSE Unwrap(open_group), IF count = 0 THEN 0 ELSE count - 1)

\* parse_perspecta_uri after its loop.
LaunchRequestOf(l) ==
    IF l.grouped_paths # <<>>
    THEN IF l.raw_paths # <<>>
         THEN LaunchErr("Cannot mix grouped launch (group=...) with path=/paths= parameters.")
         ELSE IF l.dicomweb_base # None
         THEN LaunchErr("Cannot mix grouped local launch (group=...) with dicomweb=.")
         ELSE IF l.grouped_series_uids # <<>>
         THEN LaunchErr("Cannot mix grouped local launch (group=...) with grouped DICOMweb launch (group_series=...).")
         ELSE IF BadGroup(l.grouped_paths)
         THEN LaunchErr("Group {} has {} paths. Each group must contain exactly 1 or 4 DICOM paths.")
         ELSE LocalGroups(l.grouped_paths, open_group_index(l.open_group, Len(l.grouped_paths)))
    ELSE IF l.grouped_series_uids # <<>>
    THEN IF l.raw_paths # <<>>
         THEN LaunchErr("Cannot mix grouped DICOMweb launch (group_series=...) with path=/paths= parameters.")
         ELSE IF l.series_uid # None \/ l.instance_uid # None
         THEN LaunchErr("Cannot mix grouped DICOMweb launch (group_series=...) with series=/instance= parameters.")
         ELSE IF (l.dicomweb_username # None) # (l.dicomweb_password # None)
         THEN LaunchErr("DICOMweb credentials must include both user and password.")
         ELSE IF l.dicomweb_base = None
         THEN LaunchErr("Grouped DICOMweb launch requires dicomweb= URL and study UID.")
         ELSE IF l.study_uid = None
         THEN LaunchErr("Grouped DICOMweb launch requires study UID via study=...")
         ELSE IF BadGroup(l.grouped_series_uids)
         THEN LaunchErr("group_series group {} has {} series UIDs. Each group must contain exactly 1 or 4 series UIDs.")
         ELSE DicomWebGroups(l, open_group_index(l.open_group, Len(l.grouped_series_uids)))
    ELSE IF l.dicomweb_base # None
    THEN IF (l.dicomweb_username # None) # (l.dicomweb_password # None)
         THEN LaunchErr("DICOMweb credentials must include both user and password.")
         ELSE IF l.study_uid = None
         THEN LaunchErr("DICOMweb launch requires 'study' (StudyInstanceUID).")
         ELSE DicomWeb(l)
    ELSE IF l.dicomweb_username # None \/ l.dicomweb_password # None
    THEN LaunchErr("DICOMweb credentials were provided without dicomweb= URL.")
    ELSE IF l.raw_paths = <<>>
    THEN LaunchErr("No DICOM path found in URL. Use path=..., file=..., paths=..., or files=...")
    ELSE LocalPaths(l.raw_paths)

parse_perspecta_uri(uri) ==
    LET rest == strip_perspecta_scheme(uri)
        location_and_query == split_location_and_query(Unwrap(rest))
        from_location == parse_location_path(location_and_query[1])
        started == [NoLaunchLocals EXCEPT
                       !.raw_paths = IF from_location.path = None THEN <<>>
                                     ELSE <<Unwrap(from_location.path)>>]
        l == IF location_and_query[2] = None THEN started
             ELSE QueryPairs(started, split(Unwrap(location_and_query[2]), "&"))
    IN  IF rest = None THEN LaunchErr("URL must start with perspecta://")
        ELSE IF ~from_location.ok THEN LaunchErr(from_location.err)
        ELSE IF l.err # "" THEN LaunchErr(l.err)
        ELSE LaunchRequestOf(l)

\* Bound: the parameters of a URI.
MaxParams == 3

\* The query parameters explored, as they are written in the URI.
ParamText(name) ==
    CASE name = "g1" -> <<"g", "r", "o", "u", "p", "=", "a">>
      [] name = "g4" -> <<"g", "r", "o", "u", "p", "=", "a", ",", "b", ",", ",", "c", ",", "d">>
      [] name = "g2" -> <<"G", "r", "o", "u", "p", "=", "a", "%", "7", "C", "b", ",", "c">>
      [] name = "g0" -> <<"g", "r", "o", "u", "p", "=", "+", "|">>
      [] name = "gs" -> <<"g", "r", "o", "u", "p", "s", "=", "a", ";", "b", "|", "c", "|", "d", "|", "e", ";">>
      [] name = "s1" -> <<"g", "r", "o", "u", "p", "_", "s", "e", "r", "i", "e", "s", "=", "s">>
      [] name = "s4" -> <<"s", "e", "r", "i", "e", "s", "_", "g", "r", "o", "u", "p", "=", "+", "s", "+", "|", "t", "|", "u", "|", "v">>
      [] name = "s3" -> <<"g", "r", "o", "u", "p", "s", "e", "r", "i", "e", "s", "=", "s", ",", "t", ",", "u">>
      [] name = "o1" -> <<"o", "p", "e", "n", "_", "g", "r", "o", "u", "p", "=", "1">>
      [] name = "o9" -> <<"o", "p", "e", "n", "g", "r", "o", "u", "p", "=", "+", "9">>
      [] name = "ox" -> <<"g", "r", "o", "u", "p", "_", "i", "n", "d", "e", "x", "=", "x">>
      [] name = "web" -> <<"d", "i", "c", "o", "m", "w", "e", "b", "=", "h", "%", "2", "F", "d", "&", "s", "t", "u", "d", "y", "=", "x">>
      [] name = "path" -> <<"p", "a", "t", "h", "=", "p">>
ParamNames == {"g1", "g4", "g2", "g0", "gs", "s1", "s4", "s3", "o1", "o9", "ox", "web", "path"}

RECURSIVE JoinParams(_)
JoinParams(names) ==
    IF names = <<>> THEN <<>>
    ELSE IF Len(names) = 1 THEN ParamText(names[1])
    ELSE ParamText(names[1]) \o <<"&">> \o JoinParams(Tail(names))
UriText(names) == <<"p", "e", "r", "s", "p", "e", "c", "t", "a", ":", "/", "/", "o", "p", "e", "n", "?">> \o JoinParams(names)

ParsePerspectaUri ==
    /\ ~launch_request.done
    /\ launch_request' = [done |-> TRUE, out |-> parse_perspecta_uri(UriText(launch_query))]
    /\ UNCHANGED <<launch_query, nonLqVars>>

LaunchInputs == UNION {[1 .. n -> ParamNames] : n \in 0 .. MaxParams}

LaunchInit ==
    /\ launch_query \in LaunchInputs
    /\ launch_request = Pending
    /\ FsIdle
    /\ RpIdle
    /\ LdIdle
    /\ PpIdle
    /\ ElIdle
    /\ JsIdle
    /\ UiIdle
    /\ HsIdle
    /\ WbIdle

LaunchNext == ParsePerspectaUri

SpecLaunch == LaunchInit /\ [][LaunchNext]_vars

\* What the parameters were written with: the sizes of the groups a parameter
\* gives (entries that are not blank; a group without any is no group), and the
\* group index it asks for.
GroupSizesGiven(name) ==
    CASE name \in {"g1", "s1"} -> <<1>>
      [] name \in {"g4", "s4"} -> <<4>>
      [] name = "g2" -> <<2>>
      [] name = "s3" -> <<3>>
      [] name = "gs" -> <<1, 4>>
      [] OTHER -> <<>>
RECURSIVE SizesGiven(_)
SizesGiven(names) ==
    IF names = <<>> THEN <<>> ELSE GroupSizesGiven(Head(names)) \o SizesGiven(Tail(names))
OpenGroupGiven(name) == CASE name = "o1" -> Some(1) [] name = "o9" -> Some(9) [] OTHER -> None
\* The last group index asked for, or None.
RECURSIVE LastOpenGroup(_)
LastOpenGroup(names) ==
    IF names = <<>> THEN None
    ELSE IF OpenGroupGiven(names[Len(names)]) # None THEN OpenGroupGiven(names[Len(names)])
    ELSE LastOpenGroup(SubSeq(names, 1, Len(names) - 1))
IsGrouped(r) == r.kind \in {"LocalGroups", "DicomWebGroups"}

\* C21: a grouped launch request returned by parse_perspecta_uri has at least
\* one group, every group has exactly 1 or 4 entries, and open_group is the
\* index given, clamped to the last group, or 0 when none is given; a group of
\* any other size makes the parse fail.
C21_GroupedRequestWellFormed ==
    launch_request.done =>
        LET r == launch_request.out
            sizes == SizesGiven(launch_query)
            asked == LastOpenGroup(launch_query)
        IN  /\ IsGrouped(r) =>
                  /\ Len(r.groups) >= 1
                  /\ \A g \in 1 .. Len(r.groups) : Len(r.groups[g]) \in {1, 4}
                  /\ [g \in 1 .. Len(r.groups) |-> Len(r.groups[g])] = sizes
                  /\ r.open_group \in 0 .. Len(r.groups) - 1
                  /\ r.open_group = IF asked = None THEN 0
                                    ELSE Min(Unwrap(asked), Len(r.groups) - 1)
            /\ (\E g \in 1 .. Len(sizes) : sizes[g] \notin {1, 4}) => r.kind = "Err"

\* C21 witness: a server, a group of four series and the index 9 give a
\* DICOMweb request with that one group and open_group 0.
C21_Witness ==
    /\ launch_request.done
    /\ launch_query = <<"web", "s4", "o9">>
    /\ launch_request.out.kind = "DicomWebGroups"
    /\ launch_request.out.groups = << <<<<"s">>, <<"t">>, <<"u">>, <<"v">>>> >>
    /\ launch_request.out.open_group = 0

----------------------------------------------------------------------------
\* The viewer during a grouped DICOMweb download whose active group has four
\* instances (app.rs): the download thread, the threads that load the images,
\* and the polls of update().

\* The files of the active group, in the order they are downloaded; file i
\* holds the view of slot i of the 2x2 group.
ActivePaths == <<1, 2, 3, 4>>
\* The fields of a DicomImage that place it in the 2x2 group.
MammoImage(view, laterality) == [view_position |-> view, image_laterality |-> laterality]
QuartetImages ==
    <<MammoImage(Some(<<"C", "C">>), Some(<<"R">>)), MammoImage(Some(<<"C", "C">>), Some(<<"L">>)),
      MammoImage(Some(<<"M", "L", "O">>), Some(<<"R">>)), MammoImage(Some(<<"M", "L", "O">>), Some(<<"L">>))>>
\* What load_dicom gives for a file of the active group.
ImageOfPath(path) == QuartetImages[path]
\* The PendingMammoLoad channel made for the streamed group, and the one made
\* by load_mammo_group_paths.
StreamedLoads == 1
LocalLoads == 2
\* The HistoryPreloadResult channel of preload_non_active_groups_into_history.
HistoryLoads == 3

\* PendingMammoLoad { path, image }
PendingMammoLoad(path, img) == [path |-> path, image |-> img]

\* (0..4).map(|_| None).collect()
EmptyGroup == <<None, None, None, None>>
loaded_mammo_count(a) == Cardinality({i \in 1 .. Len(a.mammo_group) : a.mammo_group[i] # None})
mammo_group_complete(a) == Len(a.mammo_group) = 4 /\ loaded_mammo_count(a) = 4

\* mammo.rs: classify_view compares the whole token.
mammo_classify_view(value) ==
    LET token == normalize_token(value)
    IN  IF token = <<"M", "L", "O">> THEN "MLO" ELSE IF token = <<"C", "C">> THEN "CC" ELSE "none"

\* The slot (from 0) of the image's view and side, or None.
mammo_slot_index(img) ==
    LET view == mammo_classify_view(img.view_position)
        side == classify_laterality(img.image_laterality)
    IN  IF view = "CC" /\ side = "R" THEN Some(0)
        ELSE IF view = "CC" /\ side = "L" THEN Some(1)
        ELSE IF view = "MLO" /\ side = "R" THEN Some(2)
        ELSE IF view = "MLO" /\ side = "L" THEN Some(3)
        ELSE None

preferred_slots_for_laterality(laterality) ==
    IF laterality = "R" THEN <<0, 2, 1, 3>>
    ELSE IF laterality = "L" THEN <<1, 3, 0, 2>>
    ELSE <<0, 1, 2, 3>>

\* Iterator::find / Iterator::position: the first element of order that fits.
FirstThat(order, Fits(_)) ==
    IF \E i \in 1 .. Len(order) : Fits(order[i])
    THEN Some(order[CHOOSE i \in 1 .. Len(order) :
                        Fits(order[i]) /\ \A j \in 1 .. i - 1 : ~Fits(order[j])])
    ELSE None

\* The images explored: the four views of a screening study, and images whose
\* view or side is missing or not recognised.
MammoImages ==
    {QuartetImages[i] : i \in 1 .. 4}
        \cup {MammoImage(None, Some(<<" ", "r">>)),
              MammoImage(Some(<<"X", "C", "C", "L">>), Some(<<"l", "e", "f", "t">>)),
              MammoImage(Some(<<"c", "c">>), None)}
\* mammo_slot_index and the order of preferred_slots_for_laterality, worked out
\* once for each image explored.
SlotIndexOf == [img \in MammoImages |-> mammo_slot_index(img)]
SlotOrderOf ==
    [img \in MammoImages |->
        preferred_slots_for_laterality(classify_laterality(img.image_laterality))]

\* Mutant of preferred_mammo_slot: the slot of the view is taken, free or not.
preferred_mammo_slot_taken_or_not(img, len, free) ==
    The({
        IF own # None /\ Unwrap(own) < len THEN own
        ELSE FirstThat(SlotOrderOf[img], LAMBDA index : index < len /\ index \in free)
        : own \in {SlotIndexOf[img]}})

\* free: the indices for which is_free answers true.
preferred_mammo_slot(img, len, free) ==
    The({
        IF own # None /\ Unwrap(own) < len /\ Unwrap(own) \in free THEN own
        ELSE FirstThat(SlotOrderOf[img], LAMBDA index : index < len /\ index \in free)
        : own \in {SlotIndexOf[img]}})

\* The history of the viewer (app.rs): the entries, the preload of the groups
\* that are not shown, and the opening of an entry by key or click.

HISTORY_MAX_ENTRIES == 24

\* Vec<String>::sort on the names of the files; file k is named so that the
\* names sort as the numbers do.
SortedPaths(paths_in) ==
    The({
        LET place(i) == Cardinality({j \in 1 .. Len(paths) :
                                        paths[j] < paths[i] \/ (paths[j] = paths[i] /\ j <= i)})
        IN  [k \in 1 .. Len(paths) |-> paths[CHOOSE i \in 1 .. Len(paths) : place(i) = k]]
        : paths \in {paths_in}})

\* format!("{}:{}", normalized.len(), normalized.join("|")): the count, and
\* the sorted names in a row.
history_id_from_paths(paths) == <<Len(paths), SortedPaths(paths)>>

PathsOfViewports(viewports) == [i \in 1 .. Len(viewports) |-> viewports[i].path]
\* HistoryEntry { id, kind, thumbs }: kind with the cached viewports.
HistoryEntry(kind_in, viewports_in) ==
    The({
        [id |-> history_id_from_paths(PathsOfViewports(viewports)), kind |-> kind,
         viewports |-> viewports]
        : kind \in {kind_in}, viewports \in {viewports_in}})

\* Mutant of upsert_history_entry: an entry with the same id stays where it is.
upsert_keeping_older(a_in, entry_in) ==
    The({
        LET inserted == <<entry>> \o a.history_entries
        IN  [a EXCEPT !.history_entries =
                IF Len(inserted) > HISTORY_MAX_ENTRIES
                THEN SubSeq(inserted, 1, HISTORY_MAX_ENTRIES) ELSE inserted]
        : a \in {a_in}, entry \in {entry_in}})

upsert_history_entry(a_in, entry_in) ==
    The({
        LET existing == {i \in 1 .. Len(a.history_entries) : a.history_entries[i].id = entry.id}
            existing_index == CHOOSE i \in existing : \A j \in existing : i <= j
            removed == IF existing = {} THEN a.history_entries
                       ELSE SubSeq(a.history_entries, 1, existing_index - 1)
                                \o SubSeq(a.history_entries, existing_index + 1, Len(a.history_entries))
            inserted == <<entry>> \o removed
        IN  [a EXCEPT !.history_entries =
                IF Len(inserted) > HISTORY_MAX_ENTRIES
                THEN SubSeq(inserted, 1, HISTORY_MAX_ENTRIES) ELSE inserted]
        : a \in {a_in}, entry \in {entry_in}})

\* The thumbnail of an image that was loaded can be built (frame 0 is there).
push_single_history_entry(a, single) == upsert_history_entry(a, HistoryEntry("Single", <<single>>))

push_group_history_entry(a_in, group_in) ==
    The({
        IF Len(group) # 4 THEN a ELSE upsert_history_entry(a, HistoryEntry("Group", group))
        : a \in {a_in}, group \in {group_in}})

loaded_mammo_viewports(a) ==
    LET loaded == SelectSeq(a.mammo_group, LAMBDA slot : slot # None)
    IN  [i \in 1 .. Len(loaded) |-> Unwrap(loaded[i])]

current_history_id(a) ==
    IF a.current_single_path # None
    THEN Some(history_id_from_paths(<<Unwrap(a.current_single_path)>>))
    ELSE IF ~mammo_group_complete(a) THEN None
    ELSE Some(history_id_from_paths(PathsOfViewports(loaded_mammo_viewports(a))))

\* Iterator::position on the ids of the entries (from 0), or None.
PositionOfId(entries, id) ==
    LET found == {i \in 1 .. Len(entries) : entries[i].id = id}
    IN  IF found = {} THEN None ELSE Some((CHOOSE i \in found : \A j \in found : i <= j) - 1)

move_current_history_to_front(a_in) ==
    The({
        LET current_id == current_history_id(a)
            index == PositionOfId(a.history_entries, Unwrap(current_id))
        IN  IF current_id = None THEN a
            ELSE IF index = None \/ index = Some(0) THEN a
            ELSE [a EXCEPT !.history_entries =
                     <<@[Unwrap(index) + 1]>> \o SubSeq(@, 1, Unwrap(index))
                         \o SubSeq(@, Unwrap(index) + 2, Len(@))]
        : a \in {a_in}})

\* mammo.rs mammo_sort_key(image, path): (view_rank, laterality_rank,
\* instance_number, file_name); the images explored carry no instance number.
ViewportKeyOf ==
    [img \in MammoImages |->
        LET view == mammo_classify_view(img.view_position)
            side == classify_laterality(img.image_laterality)
        IN  <<IF view = "CC" THEN 0 ELSE IF view = "MLO" THEN 1 ELSE 2,
              IF side = "R" THEN 0 ELSE IF side = "L" THEN 1 ELSE 2>>]
\* The key of a viewport, and the order of two keys.
ViewportKey(v) == ViewportKeyOf[v.image] \o <<v.path>>
ViewportLess(a, b) ==
    \/ a[1] < b[1]
    \/ a[1] = b[1] /\ a[2] < b[2]
    \/ a[1] = b[1] /\ a[2] = b[2] /\ a[3] < b[3]
\* loaded.sort_by(mammo_sort_key), a stable sort: each viewport goes to the
\* place that the number of viewports before it gives.
SortViewports(viewports_in) ==
    The({
        [k \in 1 .. Len(viewports) |->
            viewports[CHOOSE i \in 1 .. Len(viewports) :
                         k = Cardinality({j \in 1 .. Len(viewports) :
                                            \/ ViewportLess(keys[j], keys[i])
                                            \/ keys[j] = keys[i] /\ j <= i})]]
        : viewports \in {viewports_in},
          keys \in {[i \in 1 .. Len(viewports_in) |-> ViewportKey(viewports_in[i])]}})

\* The results of the preload thread.
PreloadSingle(path, img) == [kind |-> "Single", viewports |-> <<PendingMammoLoad(path, img)>>]
PreloadGroup(viewports) == [kind |-> "Group", viewports |-> viewports]
PreloadErr == [kind |-> "Err", viewports |-> <<>>]

\* poll_history_preload: results holds what the channel holds, senders whether
\* the thread still lives; the app, and what is left in the channel. Errors
\* are skipped, the first Ok result is pushed and ends the poll.
RECURSIVE ReceivePreloads(_, _, _)
ReceivePreloads(a, results, senders) ==
    IF results = <<>>
    THEN [app |-> IF senders THEN a ELSE [a EXCEPT !.history_preload_receiver = FALSE],
          left |-> <<>>]
    ELSE LET result == Head(results)
         IN  IF result.kind = "Err" THEN ReceivePreloads(a, Tail(results), senders)
             ELSE IF result.kind = "Single"
             THEN [app |-> move_current_history_to_front(
                               push_single_history_entry(a, result.viewports[1])),
                   left |-> Tail(results)]
             ELSE [app |-> IF Len(result.viewports) = 4
                           THEN move_current_history_to_front(
                                    push_group_history_entry(a, SortViewports(result.viewports)))
                           ELSE a,
                   left |-> Tail(results)]

poll_history_preload(a, results, senders) ==
    IF ~a.history_preload_receiver THEN [app |-> a, left |-> results]
    ELSE ReceivePreloads(a, results, senders)

queue_history_open(a, index) ==
    [a EXCEPT !.pending_history_open_armed = IF a.pending_history_open_index = None THEN FALSE ELSE @,
              !.pending_history_open_index = Some(index)]

\* mammo.rs order_mammo_indices: every item goes to the slot preferred_mammo_slot
\* gives it or waits; the empty slots take the waiting ones in turn.
RECURSIVE PlaceItems(_, _, _, _)
PlaceItems(items, k, ordered, fallback) ==
    IF k > Len(items) THEN [ordered |-> ordered, fallback |-> fallback]
    ELSE LET free == {i \in 0 .. Len(ordered) - 1 : ordered[i + 1] = None}
             slot == preferred_mammo_slot(items[k].image, Len(ordered), free)
         IN  IF slot # None /\ ordered[Unwrap(slot) + 1] = None
             THEN PlaceItems(items, k + 1, [ordered EXCEPT ![Unwrap(slot) + 1] = Some(k - 1)], fallback)
             ELSE PlaceItems(items, k + 1, ordered, Append(fallback, k - 1))
RECURSIVE FillSlots(_, _, _)
FillSlots(ordered, i, fallback) ==
    IF i > Len(ordered) THEN ordered
    ELSE IF ordered[i] = None /\ fallback # <<>>
    THEN FillSlots([ordered EXCEPT ![i] = Some(Head(fallback))], i + 1, Tail(fallback))
    ELSE FillSlots(ordered, i + 1, fallback)
order_mammo_indices(items) ==
    LET placed == PlaceItems(items, 1, [i \in 1 .. Len(items) |-> None], <<>>)
        filled == SelectSeq(FillSlots(placed.ordered, 1, placed.fallback), LAMBDA slot : slot # None)
    IN  [i \in 1 .. Len(filled) |-> Unwrap(filled[i])]

\* open_history_entry: sync_current_state_to_history writes the window and the
\* frame of the view into its entry and leaves the list as it is.
open_history_entry(a, index) ==
    IF index >= Len(a.history_entries) THEN a
    ELSE LET entry == a.history_entries[index + 1]
             ordered_indices == order_mammo_indices(entry.viewports)
         IN  IF entry.kind = "Single"
             THEN [a EXCEPT !.current_single_path = Some(entry.viewports[1].path),
                            !.mammo_group = <<>>,
                            !.status_line = "Loaded study from memory cache."]
             ELSE [a EXCEPT !.mammo_load_receiver = None,
                            !.mammo_load_sender = None,
                            !.current_single_path = None,
                            !.mammo_group =
                                [i \in 1 .. Len(ordered_indices) |->
                                    Some(entry.viewports[ordered_indices[i] + 1])],
                            !.status_line = ""]

process_pending_history_open(a) ==
    IF a.pending_history_open_index = None THEN a
    ELSE IF ~a.pending_history_open_armed THEN [a EXCEPT !.pending_history_open_armed = TRUE]
    ELSE open_history_entry([a EXCEPT !.pending_history_open_index = None,
                                      !.pending_history_open_armed = FALSE],
                            Unwrap(a.pending_history_open_index))

cycle_history_entry(a, direction) ==
    LET len == Len(a.history_entries)
        current_id == current_history_id(a)
        found == IF current_id = None THEN None
                 ELSE PositionOfId(a.history_entries, Unwrap(current_id))
        start == IF a.pending_history_open_index # None THEN a.pending_history_open_index ELSE found
        current_index == IF start = None THEN 0 ELSE Unwrap(start) % len
        next_index == IF direction < 0
                      THEN (IF current_index = 0 THEN len - 1 ELSE current_index - 1)
                      ELSE (current_index + 1) % len
    IN  IF len <= 1 THEN a ELSE queue_history_open(a, next_index)

\* load_path(path), the file loadable: the single view shows it and its entry
\* is pushed.
load_path(a, path, img) ==
    push_single_history_entry(
        [a EXCEPT !.mammo_load_receiver = None,
                  !.mammo_load_sender = None,
                  !.history_pushed_for_active_group = FALSE,
                  !.current_single_path = Some(path),
                  !.mammo_group = <<>>,
                  !.status_line = ""],
        PendingMammoLoad(path, img))

\* load_selected_paths(vec![path]): the preload is dropped, the file loaded.
load_selected_path(a, path, img) ==
    load_path([a EXCEPT !.history_preload_receiver = FALSE], path, img)

\* What the handlers do to the streaming fields when they give up or finish.
ClearActiveGroup(a) ==
    [a EXCEPT !.dicomweb_active_group_expected = None,
              !.dicomweb_active_group_paths = <<>>,
              !.dicomweb_active_pending_paths = <<>>,
              !.dicomweb_active_path_receiver = FALSE]

start_dicomweb_group_download(a) ==
    IF a.dicomweb_receiver
    THEN [a EXCEPT !.status_line = "DICOMweb download already in progress."]
    ELSE [a EXCEPT !.history_preload_receiver = FALSE,
                   !.mammo_load_receiver = None,
                   !.mammo_load_sender = None,
                   !.history_pushed_for_active_group = FALSE,
                   !.status_line = "Loading grouped study from DICOMweb...",
                   !.dicomweb_active_group_expected = None,
                   !.dicomweb_active_group_paths = <<>>,
                   !.dicomweb_active_pending_paths = <<>>,
                   !.dicomweb_active_path_receiver = TRUE,
                   !.dicomweb_receiver = TRUE]

\* preload_non_active_groups_into_history: preload_jobs are the groups other than the
\* open one, the last first; the thread is spawned by the caller's step.
preload_non_active_groups_into_history(a, preload_jobs) ==
    [a EXCEPT !.history_preload_receiver = (preload_jobs # <<>>)]

\* Ok(Grouped { groups, open_group }): the size and the paths of
\* groups[open_group], and the other groups in the order of the preload.
GroupedResult(active, others) ==
    [active_group_len |-> Len(active), active |-> active, others |-> others]

\* update(): the pending launch request is taken and handled.
HandleLaunchRequest ==
    /\ ui_step = "launch"
    /\ app.pending_launch_request
    /\ app' = start_dicomweb_group_download([app EXCEPT !.pending_launch_request = FALSE])
    /\ worker_step' = IF app.dicomweb_receiver THEN worker_step ELSE 1
    /\ stream_sender' = (stream_sender \/ ~app.dicomweb_receiver)
    /\ ui_step' = "active_paths"
    /\ UNCHANGED <<stream_updates, download_results, load_threads, load_results, nonUiVars>>

\* The download thread: the number of instances of the active group, then each
\* path as its file lands.
UpdateAt(step) ==
    IF step = 1 THEN [kind |-> "ActiveGroupInstanceCount", count |-> Len(ActivePaths), path |-> 0]
    ELSE [kind |-> "ActivePath", count |-> 0, path |-> ActivePaths[step - 1]]
WorkerSendUpdate ==
    /\ worker_step \in 1 .. Len(ActivePaths) + 1
    /\ stream_updates' = IF app.dicomweb_active_path_receiver
                         THEN Append(stream_updates, UpdateAt(worker_step)) ELSE stream_updates
    /\ worker_step' = worker_step + 1
    /\ UNCHANGED <<app, ui_step, stream_sender, download_results, load_threads, load_results, nonUiVars>>

\* download_dicomweb_group_request returns: the closure that holds
\* active_path_tx is gone.
WorkerDropStream ==
    /\ worker_step = Len(ActivePaths) + 2
    /\ stream_sender' = FALSE
    /\ worker_step' = worker_step + 1
    /\ UNCHANGED <<app, ui_step, stream_updates, download_results, load_threads, load_results, nonUiVars>>

\* tx.send(result), with Ok(Grouped { groups, open_group })
WorkerSendResult ==
    /\ worker_step = Len(ActivePaths) + 3
    /\ download_results' = IF app.dicomweb_receiver
                           THEN Append(download_results, GroupedResult(ActivePaths, <<>>))
                           ELSE download_results
    /\ worker_step' = worker_step + 1
    /\ UNCHANGED <<app, ui_step, stream_updates, stream_sender, load_threads, load_results, nonUiVars>>

\* One arm of the match on receiver.try_recv() in poll_dicomweb_active_paths.
OnStreamUpdate(a, u) ==
    IF u.kind = "ActiveGroupInstanceCount"
    THEN IF u.count = 4
         THEN [a EXCEPT !.dicomweb_active_group_expected = Some(u.count),
                        !.history_pushed_for_active_group = FALSE,
                        !.current_single_path = None,
                        !.mammo_group = EmptyGroup,
                        !.status_line = "Loading grouped study from DICOMweb (streaming active group)...",
                        !.mammo_load_sender = Some(StreamedLoads),
                        !.mammo_load_receiver = Some(StreamedLoads)]
         ELSE [a EXCEPT !.dicomweb_active_group_expected = Some(u.count)]
    ELSE [a EXCEPT !.dicomweb_active_pending_paths = Append(@, u.path)]

RECURSIVE DrainUpdates(_, _)
DrainUpdates(a, updates) ==
    IF updates = <<>> THEN a ELSE DrainUpdates(OnStreamUpdate(a, Head(updates)), Tail(updates))

\* The part of poll_dicomweb_active_paths that empties the channel.
ReceiveUpdates(a, updates, sender) ==
    LET drained == DrainUpdates(a, updates)
    IN  IF ~a.dicomweb_active_path_receiver THEN a
        ELSE IF sender THEN drained
        ELSE [drained EXCEPT !.dicomweb_active_path_receiver = FALSE,
                             !.mammo_load_sender =
                                 IF drained.dicomweb_active_group_expected = Some(4) THEN None ELSE @]

\* The part that takes one pending path: the app, and the thread it spawns.
TakePendingPath(a) ==
    LET expected == IF a.dicomweb_active_group_expected = None THEN 0
                    ELSE Unwrap(a.dicomweb_active_group_expected)
        path == Head(a.dicomweb_active_pending_paths)
        popped == [a EXCEPT !.dicomweb_active_pending_paths = Tail(@),
                            !.dicomweb_active_group_paths = Append(@, path)]
    IN  IF a.dicomweb_active_pending_paths = <<>> THEN [app |-> a, spawned |-> {}]
        ELSE IF expected = 1
        THEN [app |-> load_selected_path(popped, path, ImageOfPath(path)), spawned |-> {}]
        ELSE IF expected # 4 THEN [app |-> popped, spawned |-> {}]
        ELSE IF a.mammo_load_sender # None
        THEN [app |-> popped,
              spawned |-> {[chan |-> Unwrap(a.mammo_load_sender), paths |-> <<path>>]}]
        ELSE [app |-> ClearActiveGroup(
                          [popped EXCEPT !.status_line = "Streaming mammo load channel not available.",
                                         !.mammo_group = <<>>,
                                         !.mammo_load_receiver = None,
                                         !.mammo_load_sender = None,
                                         !.history_pushed_for_active_group = FALSE]),
              spawned |-> {}]

poll_dicomweb_active_paths(a, updates, sender) == TakePendingPath(ReceiveUpdates(a, updates, sender))

PollDicomwebActivePaths ==
    /\ ui_step = "active_paths"
    /\ LET polled == poll_dicomweb_active_paths(app, stream_updates, stream_sender)
       IN  /\ app' = polled.app
           /\ load_threads' = load_threads \cup polled.spawned
    /\ stream_updates' = IF app.dicomweb_active_path_receiver THEN <<>> ELSE stream_updates
    /\ ui_step' = "download"
    /\ UNCHANGED <<worker_step, stream_sender, download_results, load_results, nonUiVars>>

\* load_selected_paths on four paths (the preload is dropped), which is
\* load_mammo_group_paths(paths): the app; one thread loads the four files in turn.
load_mammo_group_paths(a) ==
    [a EXCEPT !.history_preload_receiver = FALSE,
              !.mammo_load_sender = None,
              !.history_pushed_for_active_group = FALSE,
              !.current_single_path = None,
              !.mammo_group = EmptyGroup,
              !.status_line = "Loading mammo 2x2 group...",
              !.mammo_load_receiver = Some(LocalLoads)]

\* The Ok(Grouped { groups, open_group }) arm of poll_dicomweb_download: the
\* app, and the threads it spawns.
OnGroupedResult(a, result) ==
    LET active_group_len == result.active_group_len
        streamed_count == Len(a.dicomweb_active_group_paths)
        streaming_started ==
            \/ streamed_count > 0
            \/ a.dicomweb_active_pending_paths # <<>>
            \/ /\ active_group_len \in {1, 4}
               /\ a.dicomweb_active_group_expected = Some(active_group_len)
        streamed_active_complete ==
            /\ streamed_count >= active_group_len
            /\ active_group_len \in {1, 4}
            /\ a.dicomweb_active_pending_paths = <<>>
        reload == ~streamed_active_complete /\ ~streaming_started
        \* load_local_groups: load_selected_paths on the active group, then the preload
        reloaded == IF active_group_len = 1
                    THEN load_selected_path(a, result.active[1], ImageOfPath(result.active[1]))
                    ELSE load_mammo_group_paths(a)
        preloading == preload_non_active_groups_into_history(a, result.others)
        shown == IF reload THEN preload_non_active_groups_into_history(reloaded, result.others)
                 ELSE move_current_history_to_front(
                          IF active_group_len = 4 /\ mammo_group_complete(a)
                                /\ ~a.history_pushed_for_active_group
                          THEN [push_group_history_entry(
                                    preloading, SortViewports(loaded_mammo_viewports(a)))
                                  EXCEPT !.history_pushed_for_active_group = TRUE]
                          ELSE preloading)
        cleared == IF streamed_active_complete \/ ~streaming_started
                   THEN [ClearActiveGroup(shown) EXCEPT !.mammo_load_sender = None,
                                                        !.history_pushed_for_active_group = FALSE]
                   ELSE shown
    IN  [app |-> [cleared EXCEPT !.status_line =
                                     IF @ = "" THEN "Loaded grouped study from DICOMweb." ELSE @],
         spawned |-> (IF reload /\ active_group_len # 1
                      THEN {[chan |-> LocalLoads, paths |-> result.active]} ELSE {})
                         \cup (IF result.others # <<>>
                               THEN {[chan |-> HistoryLoads, paths |-> result.others]} ELSE {})]

\* The app and the thread spawned; the result, if any, is taken off the channel.
poll_dicomweb_download(a, results) ==
    IF ~a.dicomweb_receiver \/ results = <<>> THEN [app |-> a, spawned |-> {}]
    ELSE OnGroupedResult([a EXCEPT !.dicomweb_receiver = FALSE], Head(results))

PollDicomwebDownload ==
    /\ ui_step = "download"
    /\ LET polled == poll_dicomweb_download(app, download_results)
       IN  /\ app' = polled.app
           /\ load_threads' = load_threads \cup polled.spawned
           /\ load_results' = [chan \in DOMAIN load_results |->
                                  IF \E t \in polled.spawned : t.chan = chan
                                  THEN <<>> ELSE load_results[chan]]
    /\ download_results' = IF app.dicomweb_receiver THEN <<>> ELSE download_results
    /\ ui_step' = "mammo_load"
    /\ UNCHANGED <<worker_step, stream_updates, stream_sender, nonUiVars>>

\* A loading thread: load_dicom on its next file, which can be loaded, and the
\* result sent; after its last file the thread ends and its sender is gone.
LoadNextFile(t) ==
    /\ t \in load_threads
    /\ load_results' = IF app.mammo_load_receiver = Some(t.chan)
                       THEN [load_results EXCEPT ![t.chan] =
                                Append(@, PendingMammoLoad(Head(t.paths), ImageOfPath(Head(t.paths))))]
                       ELSE load_results
    /\ load_threads' = (load_threads \ {t})
                           \cup (IF Len(t.paths) > 1 THEN {[t EXCEPT !.paths = Tail(@)]} ELSE {})
    /\ UNCHANGED <<app, ui_step, worker_step, stream_updates, stream_sender, download_results, nonUiVars>>

\* insert_loaded_mammo: [ok, app]. The preview of frame 0 of an image that
\* load_dicom returned can be rendered (the store holds frame 0 from load_dicom
\* on), so the only refusal is a group with no free slot.
insert_loaded_mammo(a, pending) ==
    The({
        IF slot = None THEN [ok |-> FALSE, app |-> a]
        ELSE [ok |-> TRUE, app |-> [a EXCEPT !.mammo_group[Unwrap(slot) + 1] = Some(pending)]]
        : slot \in {The({
              IF preferred # None THEN preferred
              ELSE FirstThat([i \in 1 .. Len(a.mammo_group) |-> i - 1],
                             LAMBDA index : a.mammo_group[index + 1] = None)
              : preferred \in {preferred_mammo_slot(
                                   pending.image, Len(a.mammo_group),
                                   {i \in 0 .. Len(a.mammo_group) - 1 : a.mammo_group[i + 1] = None})}})}})

\* What poll_mammo_group_load does when it gives up on the group.
DropGroup(a) ==
    LET dropped == [a EXCEPT !.mammo_group = <<>>,
                             !.mammo_load_receiver = None,
                             !.mammo_load_sender = None,
                             !.history_pushed_for_active_group = FALSE]
    IN  IF \/ a.dicomweb_active_group_expected # None
           \/ a.dicomweb_active_path_receiver
           \/ a.dicomweb_active_pending_paths # <<>>
        THEN ClearActiveGroup(dropped) ELSE dropped

\* results: what the channel holds; senders: whether a sender of it is left.
poll_mammo_group_load(a, results, senders) ==
    LET inserted == insert_loaded_mammo(a, Head(results))
        kept == inserted.app
    IN  IF a.mammo_load_receiver = None THEN a
        ELSE IF results # <<>>
        THEN IF ~inserted.ok
             THEN [DropGroup(a) EXCEPT !.status_line = "Discarded streamed image: no available mammo slot"]
             ELSE IF /\ mammo_group_complete(kept)
                     /\ (kept.dicomweb_active_group_expected = Some(4)
                            \/ kept.dicomweb_active_path_receiver)
                     /\ ~kept.history_pushed_for_active_group
             THEN The({[move_current_history_to_front(
                            push_group_history_entry(
                                complete, SortViewports(loaded_mammo_viewports(complete))))
                          EXCEPT !.history_pushed_for_active_group = TRUE] : complete \in {kept}})
             ELSE kept
        ELSE IF senders THEN a
        ELSE [(IF mammo_group_complete(a) /\ ~a.history_pushed_for_active_group
               THEN push_group_history_entry(a, SortViewports(loaded_mammo_viewports(a)))
               ELSE a)
                 EXCEPT !.mammo_load_receiver = None,
                       !.mammo_load_sender = None,
                       !.status_line =
                           IF mammo_group_complete(a) THEN ""
                           ELSE "Mammo group load incomplete: worker exited before all images were received."]

\* The channel the app receives loaded images from, or 0.
LoadChannel == IF app.mammo_load_receiver = None THEN 0 ELSE Unwrap(app.mammo_load_receiver)
SendersLeft(chan) ==
    \/ app.mammo_load_sender = Some(chan)
    \/ \E t \in load_threads : t.chan = chan

PreloadRunning == \E t \in load_threads : t.chan = HistoryLoads

\* update(): poll_history_preload, then poll_mammo_group_load.
PollMammoGroupLoad ==
    /\ ui_step = "mammo_load"
    /\ LET polled == poll_history_preload(app, load_results[HistoryLoads], PreloadRunning)
       IN  /\ app' = poll_mammo_group_load(polled.app,
                                           IF LoadChannel = 0 THEN <<>> ELSE load_results[LoadChannel],
                                           SendersLeft(LoadChannel))
           /\ load_results' = [chan \in DOMAIN load_results |->
                                  IF chan = HistoryLoads THEN polled.left
                                  ELSE IF chan = LoadChannel /\ load_results[chan] # <<>>
                                  THEN Tail(load_results[chan])
                                  ELSE load_results[chan]]
    /\ ui_step' = "active_paths"
    /\ UNCHANGED <<worker_step, stream_updates, stream_sender, download_results, load_threads, nonUiVars>>

LoadThreads ==
    {[chan |-> StreamedLoads, paths |-> <<ActivePaths[i]>>] : i \in 1 .. Len(ActivePaths)}
        \cup {[chan |-> LocalLoads, paths |-> SubSeq(ActivePaths, i, Len(ActivePaths))] :
                 i \in 1 .. Len(ActivePaths)}

StreamInit ==
    /\ app = [FreshApp EXCEPT !.pending_launch_request = TRUE]
    /\ ui_step = "launch"
    /\ worker_step = 0
    /\ stream_updates = <<>>
    /\ stream_sender = FALSE
    /\ download_results = <<>>
    /\ load_threads = {}
    /\ load_results = << <<>>, <<>>, <<>> >>
    /\ FsIdle
    /\ RpIdle
    /\ LdIdle
    /\ PpIdle
    /\ ElIdle
    /\ JsIdle
    /\ LqIdle
    /\ HsIdle
    /\ WbIdle

UiNext == HandleLaunchRequest \/ PollDicomwebActivePaths \/ PollDicomwebDownload \/ PollMammoGroupLoad
WorkerNext == WorkerSendUpdate \/ WorkerDropStream \/ WorkerSendResult
LoaderNext == \E t \in LoadThreads : LoadNextFile(t)
StreamNext == UiNext \/ WorkerNext \/ LoaderNext

\* update() runs again and again while a receiver is held (request_repaint_after),
\* and every thread goes on.
SpecStream ==
    /\ StreamInit
    /\ [][StreamNext]_vars
    /\ WF_vars(UiNext)
    /\ WF_vars(WorkerNext)
    /\ \A t \in LoadThreads : WF_vars(LoadNextFile(t))

\* The download thread has sent Ok(Grouped) after every file of the active group.
DownloadCompleted == worker_step = Len(ActivePaths) + 4

C22_ShownOrGivenUp ==
    DownloadCompleted ~> [](mammo_group_complete(app) \/ app.mammo_group = <<>>)

\* The result was taken by poll_dicomweb_download while the stream was still
\* being received.
TakenMidStream ==
    /\ ~app.pending_launch_request
    /\ ~app.dicomweb_receiver
    /\ app.dicomweb_active_path_receiver

\* C22, apart: the four images are shown in the end in every behaviour in which
\* the result is not taken in the middle of the stream.
C22_ShownUnlessTakenMidStream ==
    ([]~TakenMidStream) => (DownloadCompleted ~> mammo_group_complete(app))

----------------------------------------------------------------------------
\* insert_loaded_mammo on its own (app.rs, mammo.rs): the streamed group of
\* four has been announced, its paths were taken one by one and each was loaded
\* by its thread; the images wait in the channel for poll_mammo_group_load.
\* What a file holds is any of the images explored. The viewer does not count
\* the paths it is sent: up to one more than the group has slots are explored,
\* and after a refusal the channel is not read again.

MaxLoads == Len(EmptyGroup) + 1

InsertApp(n) ==
    [FreshApp EXCEPT !.dicomweb_receiver = TRUE,
                     !.dicomweb_active_path_receiver = TRUE,
                     !.dicomweb_active_group_expected = Some(4),
                     !.dicomweb_active_group_paths = [i \in 1 .. n |-> i],
                     !.mammo_group = EmptyGroup,
                     !.mammo_load_sender = Some(StreamedLoads),
                     !.mammo_load_receiver = Some(StreamedLoads),
                     !.status_line = "Loading grouped study from DICOMweb (streaming active group)..."]

InsertInit ==
    /\ \E n \in 1 .. MaxLoads :
          /\ app = InsertApp(n)
          /\ \E images \in [1 .. n -> MammoImages] :
                load_results = <<[i \in 1 .. n |-> PendingMammoLoad(i, images[i])], <<>>, <<>> >>
    /\ ui_step = "active_paths"
    /\ worker_step = 0
    /\ stream_updates = <<>>
    /\ stream_sender = TRUE
    /\ download_results = <<>>
    /\ load_threads = {}
    /\ FsIdle
    /\ RpIdle
    /\ LdIdle
    /\ PpIdle
    /\ ElIdle
    /\ JsIdle
    /\ LqIdle
    /\ HsIdle
    /\ WbIdle

\* update(): the polls in turn.
InsertNext ==
    \/ PollDicomwebActivePaths
    \/ PollDicomwebDownload
    \/ PollMammoGroupLoad

SpecInsert == InsertInit /\ [][InsertNext]_vars

\* The slots (from 1) of the group that are free.
FreeSlots == {i \in 1 .. Len(app.mammo_group) : app.mammo_group[i] = None}
\* The image that this poll of poll_mammo_group_load receives, if it receives one.
InsertDue ==
    /\ ui_step = "mammo_load"
    /\ LoadChannel # 0
    /\ load_results[LoadChannel] # <<>>
DueImage == Head(load_results[LoadChannel])
\* The slot (from 1) the claim gives the image: that of its view and side when
\* it is free, else the first free one in the order of its side.
ClaimedSlot(img) ==
    LET view == mammo_classify_view(img.view_position)
        side == classify_laterality(img.image_laterality)
        own == IF view = "CC" /\ side = "R" THEN 1
               ELSE IF view = "CC" /\ side = "L" THEN 2
               ELSE IF view = "MLO" /\ side = "R" THEN 3
               ELSE IF view = "MLO" /\ side = "L" THEN 4
               ELSE 0
        order == IF side = "R" THEN <<1, 3, 2, 4>>
                 ELSE IF side = "L" THEN <<2, 4, 1, 3>>
                 ELSE <<1, 2, 3, 4>>
    IN  IF own \in FreeSlots THEN own
        ELSE order[CHOOSE k \in 1 .. 4 :
                       order[k] \in FreeSlots /\ \A j \in 1 .. k - 1 : order[j] \notin FreeSlots]

\* A filled slot keeps its viewport as long as the group is there.
KeepsLoaded ==
    \A i \in 1 .. Len(app.mammo_group) :
        (app.mammo_group[i] # None /\ app'.mammo_group # <<>>) =>
            /\ Len(app'.mammo_group) = Len(app.mammo_group)
            /\ app'.mammo_group[i] = app.mammo_group[i]

\* The image received goes to the slot of the claim; with no free slot the
\* group is cleared and its load is given up.
PlacedOrAbandoned ==
    InsertDue =>
        IF FreeSlots = {}
        THEN /\ app'.mammo_group = <<>>
             /\ app'.mammo_load_receiver = None
             /\ app'.mammo_load_sender = None
             /\ app'.dicomweb_active_pending_paths = <<>>
             /\ ~app'.dicomweb_active_path_receiver
        ELSE app'.mammo_group =
                 [app.mammo_group EXCEPT ![ClaimedSlot(DueImage.image)] = Some(DueImage)]

\* The images inserted so far: the paths taken, less those still being loaded
\* and those waiting in the channel.
Inserted ==
    Len(app.dicomweb_active_group_paths) - Cardinality(load_threads)
        - Len(load_results[StreamedLoads])
FilledByInserts ==
    Len(app.mammo_group) = 4 =>
        /\ loaded_mammo_count(app) = Inserted
        /\ Inserted = 4 => mammo_group_complete(app)

\* C33: insert_loaded_mammo never replaces a loaded viewport: it places the
\* image in the slot of its (view, laterality) class when that slot is free,
\* else in the first free slot of its laterality preference order, else in any
\* free slot; when no slot is free it returns an error, the 4-slot group is
\* cleared and the group load is abandoned. After four successful inserts into
\* an empty 4-slot group all four slots are filled.
C33_InsertKeepsLoadedViewports ==
    []FilledByInserts /\ [][KeepsLoaded /\ PlacedOrAbandoned]_vars

\* A fifth image came for a full group: the group is gone, the load given up.
C33_Witness ==
    /\ app.mammo_group = <<>>
    /\ app.mammo_load_receiver = None
    /\ app.status_line = "Discarded streamed image: no available mammo slot"
    /\ app.dicomweb_active_group_paths = <<>>
    /\ load_results[StreamedLoads] = <<>>

----------------------------------------------------------------------------
\* The history while the viewer is used (app.rs update): n files were opened
\* one after the other, the last of them as the shown group of a grouped
\* opening whose other groups are being preloaded.

\* How many key presses, clicks and file openings are explored.
MaxEvents == 2
HistorySizes == {1, 3, HISTORY_MAX_ENTRIES - 1, HISTORY_MAX_ENTRIES}
\* What load_dicom gives for the file.
HistoryImageOf(path) == QuartetImages[(path % 4) + 1]
ViewportOf(path) == PendingMammoLoad(path, HistoryImageOf(path))
\* The groups the preload thread is given: four files new to the history, a
\* file new to the history.
PreloadJobs(n) == << <<n + 4, n + 2, n + 5, n + 3>>, <<n + 6>> >>
\* Tab, Shift-Tab, a click on a row of the history list, a file picked.
UiEvent(kind, arg) == [kind |-> kind, arg |-> arg]
UiEvents(n) ==
    {UiEvent("tab", 0), UiEvent("shift_tab", 0), UiEvent("click", 1), UiEvent("click", n - 1),
     UiEvent("open", 1), UiEvent("open", n + 1)}
RECURSIVE EventScripts(_, _)
EventScripts(n, len) ==
    IF len = 0 THEN {<<>>}
    ELSE {<<>>} \cup {<<ev>> \o rest : ev \in UiEvents(n), rest \in EventScripts(n, len - 1)}

HistoryApp(n) ==
    [FreshApp EXCEPT !.history_entries = [i \in 1 .. n |-> HistoryEntry("Single", <<ViewportOf(n + 1 - i)>>)],
                     !.current_single_path = Some(n),
                     !.history_preload_receiver = TRUE]

HistoryInit ==
    /\ \E n \in HistorySizes :
          /\ app = HistoryApp(n)
          /\ load_threads = {[chan |-> HistoryLoads, paths |-> PreloadJobs(n)]}
          /\ ui_events \in EventScripts(n, MaxEvents)
    /\ queued_entry = None
    /\ ui_step = "idle"
    /\ worker_step = 0
    /\ stream_updates = <<>>
    /\ stream_sender = FALSE
    /\ download_results = <<>>
    /\ load_results = << <<>>, <<>>, <<>> >>
    /\ FsIdle
    /\ RpIdle
    /\ LdIdle
    /\ PpIdle
    /\ ElIdle
    /\ JsIdle
    /\ LqIdle
    /\ WbIdle

\* preload_group_into_history for the next group of the thread: the files are
\* loaded and the result sent, or a file cannot be read and Err is sent; a
\* result sent to a receiver that is gone is lost.
PreloadNextGroup(t, readable) ==
    /\ t \in load_threads
    /\ t.chan = HistoryLoads
    /\ LET group == Head(t.paths)
           result == IF ~readable THEN PreloadErr
                     ELSE IF Len(group) = 1 THEN PreloadSingle(group[1], HistoryImageOf(group[1]))
                     ELSE IF Len(group) = 4
                     THEN PreloadGroup([i \in 1 .. 4 |-> ViewportOf(group[i])])
                     ELSE PreloadErr
       IN  load_results' = IF app.history_preload_receiver
                           THEN [load_results EXCEPT ![HistoryLoads] = Append(@, result)]
                           ELSE load_results
    /\ load_threads' = (load_threads \ {t})
                           \cup (IF Len(t.paths) > 1 THEN {[t EXCEPT !.paths = Tail(@)]} ELSE {})
    /\ UNCHANGED <<app, ui_step, worker_step, stream_updates, stream_sender, download_results,
                   nonUiVars>>

\* The row the event is about is on the screen.
EventPossible(ev) == ev.kind = "click" => ev.arg < Len(app.history_entries)

\* One update(): process_pending_history_open, process_pending_local_open with
\* the file that was picked, poll_history_preload, then the keys and the
\* clicks of the frame.
HistoryUpdate(with_event) ==
    /\ with_event => ui_events # <<>> /\ EventPossible(Head(ui_events))
    /\ \E ev \in {IF with_event THEN Head(ui_events) ELSE UiEvent("none", 0)} :
       \E after_open \in {process_pending_history_open(app)} :
       \E polled \in {poll_history_preload(
                          IF ev.kind = "open"
                          THEN load_selected_path(after_open, ev.arg, HistoryImageOf(ev.arg))
                          ELSE after_open,
                          load_results[HistoryLoads], PreloadRunning)} :
       \E after \in {IF ev.kind = "tab" THEN cycle_history_entry(polled.app, 1)
                     ELSE IF ev.kind = "shift_tab" THEN cycle_history_entry(polled.app, -1)
                     ELSE IF ev.kind = "click" THEN queue_history_open(polled.app, ev.arg)
                     ELSE polled.app} :
           /\ app' = after
           /\ load_results' = [load_results EXCEPT ![HistoryLoads] = polled.left]
           /\ queued_entry' =
                  IF \/ ev.kind = "click"
                     \/ ev.kind \in {"tab", "shift_tab"} /\ Len(polled.app.history_entries) > 1
                  THEN Some(after.history_entries[Unwrap(after.pending_history_open_index) + 1].id)
                  ELSE IF after.pending_history_open_index = None \/ ev.kind = "open" THEN None
                  ELSE queued_entry
    /\ ui_events' = IF with_event THEN Tail(ui_events) ELSE ui_events
    /\ UNCHANGED <<ui_step, worker_step, stream_updates, stream_sender, download_results,
                   load_threads, nonViewerVars>>

HistoryNext ==
    \/ \E t \in load_threads, readable \in BOOLEAN : PreloadNextGroup(t, readable)
    \/ \E with_event \in BOOLEAN : HistoryUpdate(with_event)

SpecHistory == HistoryInit /\ [][HistoryNext]_vars

\* The step is an update() of the viewer (a step of the preload thread takes
\* a group from the thread).
IsUpdate == load_threads' = load_threads

NoTwoWithSameId(entries) ==
    \A i, j \in 1 .. Len(entries) : entries[i].id = entries[j].id => i = j
\* The id of the files in any other order.
IdOfAnyOrder(paths) ==
    {history_id_from_paths([i \in 1 .. Len(paths) |-> paths[order[i]]]) :
        order \in Permutations(1 .. Len(paths))}
IdsOfTheSetOnly(entries) ==
    \A i \in 1 .. Len(entries) :
        IdOfAnyOrder(PathsOfViewports(entries[i].viewports)) = {entries[i].id}
\* entries without the entries of the id, cut to what fits behind one entry.
OthersKept(entries, id) ==
    LET others == SelectSeq(entries, LAMBDA e : e.id # id)
    IN  SubSeq(others, 1, IF Len(others) < HISTORY_MAX_ENTRIES THEN Len(others)
                          ELSE HISTORY_MAX_ENTRIES - 1)
\* The entries that are upserted next: what the preload has sent, the file
\* that is picked next.
UpsertedNext ==
    {HistoryEntry(r.kind, IF r.kind = "Group" THEN SortViewports(r.viewports) ELSE r.viewports) :
        r \in {load_results[HistoryLoads][i] : i \in 1 .. Len(load_results[HistoryLoads])}
                  \ {PreloadErr}}
        \cup {HistoryEntry("Single", <<ViewportOf(ui_events[i].arg)>>) :
                 i \in {k \in 1 .. Len(ui_events) : ui_events[k].kind = "open"}}
HistoryWellFormed ==
    /\ NoTwoWithSameId(app.history_entries)
    /\ IdsOfTheSetOnly(app.history_entries)
    /\ Len(app.history_entries) <= HISTORY_MAX_ENTRIES
    /\ \A entry \in UpsertedNext :
          LET upserted == upsert_history_entry(app, entry).history_entries
          IN  /\ upserted = <<entry>> \o OthersKept(app.history_entries, entry.id)
              /\ NoTwoWithSameId(upserted)
\* update() with a file picked: the preload is dropped, so the entry of the
\* file is what the update leaves in front.
OpenedFileIsFirst ==
    IsUpdate /\ ui_events # <<>> /\ ui_events' = Tail(ui_events) /\ Head(ui_events).kind = "open"
        => /\ app'.history_entries # <<>>
           /\ app'.history_entries[1].id = history_id_from_paths(<<Head(ui_events).arg>>)
           /\ app'.current_single_path = Some(Head(ui_events).arg)

OpensQueued ==
    /\ IsUpdate
    /\ app.pending_history_open_index # None
    /\ app.pending_history_open_armed
    /\ queued_entry # None
OpenedIsQueued ==
    LET index == Unwrap(app.pending_history_open_index)
    IN  /\ index < Len(app.history_entries)
        /\ app.history_entries[index + 1].id = Unwrap(queued_entry)
\* C34: the entry that process_pending_history_open opens is the entry that was
\* at the queued index when queue_history_open or cycle_history_entry queued
\* it, also when the preload pushed or moved entries in the updates between.
C34_OpenedEntryIsTheQueuedOne == [][OpensQueued => OpenedIsQueued]_vars

----------------------------------------------------------------------------
\* A grouped launch whose open group is one file (app.rs): the request is a
\* local one, or a DICOMweb one whose download thread streams the file; the
\* other groups are preloaded into the history. Every file can be loaded.

SinglePaths == <<1>>
\* The groups that are not open, the last first: four files, one file.
OtherGroups == << <<6, 7, 8, 9>>, <<5>> >>

\* load_local_groups(groups, open_group), every group of 1 or 4 files.
load_local_groups(a, active, others) ==
    preload_non_active_groups_into_history(
        IF Len(active) = 1 THEN load_selected_path(a, active[1], ImageOfPath(active[1]))
        ELSE load_mammo_group_paths(a),
        others)

PreloadInit ==
    /\ app = [FreshApp EXCEPT !.pending_launch_request = TRUE]
    /\ ui_step = "launch"
    /\ worker_step = 0
    /\ stream_updates = <<>>
    /\ stream_sender = FALSE
    /\ download_results = <<>>
    /\ load_threads = {}
    /\ load_results = << <<>>, <<>>, <<>> >>
    /\ FsIdle
    /\ RpIdle
    /\ LdIdle
    /\ PpIdle
    /\ ElIdle
    /\ JsIdle
    /\ LqIdle
    /\ HsIdle
    /\ WbIdle

\* update(): the pending launch request is a local grouped one.
HandleLocalLaunch ==
    /\ ui_step = "launch"
    /\ app.pending_launch_request
    /\ app' = load_local_groups([app EXCEPT !.pending_launch_request = FALSE], SinglePaths, OtherGroups)
    /\ load_threads' = load_threads \cup {[chan |-> HistoryLoads, paths |-> OtherGroups]}
    /\ load_results' = [load_results EXCEPT ![HistoryLoads] = <<>>]
    /\ ui_step' = "active_paths"
    /\ UNCHANGED <<worker_step, stream_updates, stream_sender, download_results, nonUiVars>>

\* The download thread of the DICOMweb request: the count of the open group,
\* its path, the end of the stream, the result.
SingleWorkerStep ==
    /\ worker_step \in 1 .. 4
    /\ stream_updates' =
           IF worker_step = 1 /\ app.dicomweb_active_path_receiver
           THEN Append(stream_updates,
                       [kind |-> "ActiveGroupInstanceCount", count |-> Len(SinglePaths), path |-> 0])
           ELSE IF worker_step = 2 /\ app.dicomweb_active_path_receiver
           THEN Append(stream_updates, [kind |-> "ActivePath", count |-> 0, path |-> SinglePaths[1]])
           ELSE stream_updates
    /\ stream_sender' = IF worker_step = 3 THEN FALSE ELSE stream_sender
    /\ download_results' = IF worker_step = 4 /\ app.dicomweb_receiver
                           THEN Append(download_results, GroupedResult(SinglePaths, OtherGroups))
                           ELSE download_results
    /\ worker_step' = worker_step + 1
    /\ UNCHANGED <<app, ui_step, load_threads, load_results, nonUiVars>>

PreloadUiNext ==
    \/ HandleLaunchRequest
    \/ HandleLocalLaunch
    \/ PollDicomwebActivePaths
    \/ PollDicomwebDownload
    \/ PollMammoGroupLoad
PreloadThreadNext == \E t \in load_threads : PreloadNextGroup(t, TRUE)
PreloadNext == PreloadUiNext \/ SingleWorkerStep \/ PreloadThreadNext

\* update() runs again and again while a receiver is held, and the threads go on.
SpecPreload ==
    /\ PreloadInit
    /\ [][PreloadNext]_vars
    /\ WF_vars(PreloadUiNext)
    /\ WF_vars(SingleWorkerStep)
    /\ WF_vars(PreloadThreadNext)

HasEntryOf(paths) ==
    \E i \in 1 .. Len(app.history_entries) :
        app.history_entries[i].id = history_id_from_paths(paths)
AllPreloaded == \A i \in 1 .. Len(OtherGroups) : HasEntryOf(OtherGroups[i])

LocalLaunched == ~app.pending_launch_request /\ worker_step = 0
\* C35, apart: after a local grouped launch every other group has in the end
\* its entry in the history.
C35_LocalGroupsEventuallyInHistory == (<>LocalLaunched) => <>[]AllPreloaded
\* The result of the download is taken with the streamed path still to be
\* taken by poll_dicomweb_active_paths.
TakenBeforePath ==
    /\ ~app.pending_launch_request
    /\ ~app.dicomweb_receiver
    /\ app.history_preload_receiver
    /\ app.dicomweb_active_group_expected = Some(1)
    /\ app.dicomweb_active_group_paths = <<>>
\* C35, apart: the other groups are in the end in the history in every
\* behaviour in which the result is not taken before the streamed path.
C35_InHistoryUnlessTakenBeforePath == ([]~TakenBeforePath) => <>[]AllPreloaded

----------------------------------------------------------------------------
\* The frames of the viewer (app.rs): the frame shown by the single view and
\* by each viewport of the 2x2 group, under loading, the history, cine, the
\* frame scroll and the frame slider. Of the viewer only the fields that the
\* frame index depends on are kept; an image is its file and its frame count.

\* frame_count of the image load_dicom gives for a file (at least 1,
\* dicom.rs:223-227): a single file, and the four files of a group.
FramesOfFile == <<3, 3, 2, 2, 2>>
SingleFiles == {1}
GroupFiles == <<2, 3, 4, 5>>
\* How many frames a cine step advances at most.
MaxAdvance == 4
ScrollSteps == {-1, 2}

\* MammoViewport { path, image, current_frame, .. } and HistorySingleData
FrameViewport(path) == [path |-> path, frame_count |-> FramesOfFile[path], current_frame |-> 0]
FrameApp ==
    [image |-> None, current_frame |-> 0, cine_mode |-> FALSE, mammo_group |-> <<>>,
     mammo_selected_index |-> 0, mammo_load_receiver |-> FALSE, history_entries |-> <<>>]

\* frame_index.min(frame_count.saturating_sub(1)), 0 for an image of no frame
safe_frame(frame_index, frame_count) ==
    IF frame_count = 0 THEN 0 ELSE Min(frame_index, frame_count - 1)

mammo_group_common_frame_count(a) ==
    LET loaded == loaded_mammo_viewports(a)
    IN  IF loaded = <<>> THEN 0
        ELSE CHOOSE n \in {loaded[i].frame_count : i \in 1 .. Len(loaded)} :
                 \A i \in 1 .. Len(loaded) : n <= loaded[i].frame_count

\* selected_mammo_viewport: the slot (from 1) of the viewport, or 0.
selected_mammo_slot(a) ==
    LET slot == Min(a.mammo_selected_index, Max(Len(a.mammo_group), 1) - 1) + 1
        loaded == {i \in 1 .. Len(a.mammo_group) : a.mammo_group[i] # None}
    IN  IF loaded = {} THEN 0
        ELSE IF slot \in loaded THEN slot
        ELSE CHOOSE i \in loaded : \A j \in loaded : i <= j

selected_mammo_frame_index(a) ==
    IF selected_mammo_slot(a) = 0 THEN 0
    ELSE Unwrap(a.mammo_group[selected_mammo_slot(a)]).current_frame

\* Mutant of set_mammo_group_frame: every viewport takes the frame as it is.
set_mammo_group_frame_as_given(a, frame_index) ==
    [a EXCEPT !.mammo_group =
        [i \in 1 .. Len(a.mammo_group) |->
            IF a.mammo_group[i] = None THEN None
            ELSE Some([Unwrap(a.mammo_group[i]) EXCEPT !.current_frame = frame_index])]]

set_mammo_group_frame(a, frame_index) ==
    IF loaded_mammo_count(a) = 0 THEN a
    ELSE [a EXCEPT !.mammo_group =
             [i \in 1 .. Len(a.mammo_group) |->
                 LET frame_count == Unwrap(a.mammo_group[i]).frame_count
                 IN  IF a.mammo_group[i] = None THEN None
                     ELSE IF frame_count = 0 THEN a.mammo_group[i]
                     ELSE Some([Unwrap(a.mammo_group[i]) EXCEPT !.current_frame =
                                   Min(safe_frame(frame_index, frame_count), frame_count - 1)])]]

\* rebuild_texture: rendered tells whether render_image_frame gave a picture.
rebuild_texture(a, rendered) ==
    IF a.image = None THEN a
    ELSE IF Unwrap(a.image).frame_count = 0 \/ ~rendered THEN a
    ELSE [a EXCEPT !.current_frame = Min(@, Unwrap(a.image).frame_count - 1)]

rebuild_selected_mammo_texture(a) ==
    LET slot == selected_mammo_slot(a)
    IN  IF slot = 0 THEN a
        ELSE IF Unwrap(a.mammo_group[slot]).frame_count = 0 THEN a
        ELSE [a EXCEPT !.mammo_group[slot] =
                 Some([Unwrap(@) EXCEPT !.current_frame = Min(@, Unwrap(a.mammo_group[slot]).frame_count - 1)])]

\* advance_cine_if_needed with the frame interval elapsed.
advance_cine_if_needed(a, frames_to_advance, rendered) ==
    LET frame_count == IF a.image # None THEN Unwrap(a.image).frame_count
                       ELSE mammo_group_common_frame_count(a)
    IN  IF ~a.cine_mode THEN a
        ELSE IF frame_count <= 1 THEN [a EXCEPT !.cine_mode = FALSE]
        ELSE IF a.image # None
        THEN rebuild_texture([a EXCEPT !.current_frame = (@ + frames_to_advance) % frame_count],
                             rendered)
        ELSE set_mammo_group_frame(
                 a, (selected_mammo_frame_index(a) + frames_to_advance) % frame_count)

toggle_cine_mode(a) ==
    LET frame_count == mammo_group_common_frame_count(a)
        enabling == ~a.cine_mode
        toggled == [a EXCEPT !.cine_mode = enabling]
    IN  IF a.image # None
        THEN IF Unwrap(a.image).frame_count <= 1 THEN [a EXCEPT !.cine_mode = FALSE]
             ELSE [a EXCEPT !.cine_mode = ~@]
        ELSE IF loaded_mammo_count(a) = 0 \/ ~mammo_group_complete(a) \/ frame_count <= 1
        THEN [a EXCEPT !.cine_mode = FALSE]
        ELSE IF enabling
        THEN set_mammo_group_frame(toggled, Min(selected_mammo_frame_index(a), frame_count - 1))
        ELSE toggled

\* ActiveViewportState { is_single, frame_count, current_frame, .. }
active_viewport_state(a) ==
    LET group_frame_count == mammo_group_common_frame_count(a)
    IN  IF a.image # None
        THEN Some([is_single |-> TRUE, frame_count |-> Unwrap(a.image).frame_count,
                   current_frame |-> a.current_frame])
        ELSE IF selected_mammo_slot(a) = 0 THEN None
        ELSE Some([is_single |-> FALSE, frame_count |-> group_frame_count,
                   current_frame |-> safe_frame(selected_mammo_frame_index(a), group_frame_count)])

apply_active_viewport_state(a, state, rendered) ==
    IF state.is_single
    THEN rebuild_texture([a EXCEPT !.current_frame = state.current_frame], rendered)
    ELSE IF a.cine_mode
    THEN set_mammo_group_frame(a, safe_frame(state.current_frame, state.frame_count))
    ELSE IF selected_mammo_slot(a) = 0 THEN a
    ELSE rebuild_selected_mammo_texture(
             [a EXCEPT !.mammo_group[selected_mammo_slot(a)] =
                 Some([Unwrap(@) EXCEPT !.current_frame =
                          IF state.frame_count = 0 THEN 0
                          ELSE Min(state.current_frame, state.frame_count - 1)])])

\* history_id_from_paths of what is shown, or None (current_history_id).
shown_history_id(a) ==
    IF a.image # None THEN Some(history_id_from_paths(<<Unwrap(a.image).path>>))
    ELSE IF ~mammo_group_complete(a) THEN None
    ELSE Some(history_id_from_paths(PathsOfViewports(loaded_mammo_viewports(a))))

\* sync_current_state_to_history: the frames shown go into the entry of what
\* is shown.
sync_frames_to_history(a) ==
    LET current_id == shown_history_id(a)
        shown(path) ==
            LET slots == {i \in 1 .. Len(a.mammo_group) :
                             a.mammo_group[i] # None /\ Unwrap(a.mammo_group[i]).path = path}
            IN  IF slots = {} THEN None
                ELSE a.mammo_group[CHOOSE i \in slots : \A j \in slots : i <= j]
        synced(entry) ==
            IF entry.kind = "Single"
            THEN [entry EXCEPT !.viewports[1].current_frame = a.current_frame]
            ELSE [entry EXCEPT !.viewports =
                     [i \in 1 .. Len(entry.viewports) |->
                         LET cached == entry.viewports[i]
                         IN  IF shown(cached.path) = None THEN cached
                             ELSE [cached EXCEPT !.current_frame =
                                      Unwrap(shown(cached.path)).current_frame]]]
        found == {i \in 1 .. Len(a.history_entries) :
                     current_id # None /\ a.history_entries[i].id = Unwrap(current_id)}
    IN  IF found = {} THEN a
        ELSE LET first == CHOOSE i \in found : \A j \in found : i <= j
             IN  [a EXCEPT !.history_entries[first] = synced(a.history_entries[first])]

\* upsert_history_entry with the frames kept in the entry.
push_frames_entry(a, kind, viewports) ==
    LET entry == [id |-> history_id_from_paths(PathsOfViewports(viewports)), kind |-> kind,
                  viewports |-> viewports]
        others == SelectSeq(a.history_entries, LAMBDA e : e.id # entry.id)
        inserted == <<entry>> \o others
    IN  [a EXCEPT !.history_entries =
            SubSeq(inserted, 1, Min(Len(inserted), HISTORY_MAX_ENTRIES))]

FramesInit ==
    /\ app = FrameApp
    /\ ui_step = "idle"
    /\ worker_step = 0
    /\ stream_updates = <<>>
    /\ stream_sender = FALSE
    /\ download_results = <<>>
    /\ load_threads = {}
    /\ load_results = << <<>>, <<>>, <<>> >>
    /\ FsIdle
    /\ RpIdle
    /\ LdIdle
    /\ PpIdle
    /\ ElIdle
    /\ JsIdle
    /\ LqIdle
    /\ HsIdle
    /\ WbIdle

FramesUnchanged ==
    UNCHANGED <<ui_step, worker_step, stream_updates, stream_sender, download_results,
                load_threads, nonUiVars>>

\* load_selected_paths(vec![path]) and load_path, the file loadable: frame 0
\* of the file is shown and its entry pushed.
LoadSingleFile(path, rendered) ==
    /\ LET synced == sync_frames_to_history(app)
           shown == rebuild_texture([synced EXCEPT !.mammo_load_receiver = FALSE,
                                                   !.image = Some([path |-> path,
                                                                   frame_count |-> FramesOfFile[path]]),
                                                   !.current_frame = 0,
                                                   !.cine_mode = FALSE,
                                                   !.mammo_group = <<>>,
                                                   !.mammo_selected_index = 0],
                                    rendered)
       IN  app' = IF rendered
                  THEN push_frames_entry(shown, "Single",
                                         <<[FrameViewport(path) EXCEPT !.current_frame = shown.current_frame]>>)
                  ELSE shown
    /\ load_results' = [load_results EXCEPT ![LocalLoads] = <<>>]
    /\ FramesUnchanged

\* load_selected_paths on the four files of the group: load_mammo_group_paths;
\* its thread loads the files, which arrive one by one.
LoadGroupFiles ==
    /\ app' = [sync_frames_to_history(app) EXCEPT !.mammo_load_receiver = TRUE,
                                                  !.image = None,
                                                  !.current_frame = 0,
                                                  !.cine_mode = FALSE,
                                                  !.mammo_group = EmptyGroup,
                                                  !.mammo_selected_index = 0]
    /\ load_results' = [load_results EXCEPT ![LocalLoads] = GroupFiles]
    /\ FramesUnchanged

\* poll_mammo_group_load: the next file loaded goes to its slot with frame 0
\* (insert_loaded_mammo; file i of the group holds the view of slot i), or the
\* group is no longer there and the load is given up; with the channel empty
\* and the thread gone the receiver is dropped and a complete group pushed.
PollGroupFrames ==
    /\ app.mammo_load_receiver
    /\ LET path == Head(load_results[LocalLoads])
           slot == CHOOSE i \in 1 .. Len(GroupFiles) : GroupFiles[i] = path
           loaded == [app EXCEPT !.mammo_group[slot] = Some(FrameViewport(path)),
                                 !.mammo_selected_index =
                                     IF loaded_mammo_count(app) = 0 THEN slot - 1 ELSE @]
       IN  IF load_results[LocalLoads] # <<>>
           THEN /\ app' = IF Len(app.mammo_group) = 0
                          THEN [app EXCEPT !.mammo_load_receiver = FALSE, !.cine_mode = FALSE]
                          ELSE loaded
                /\ load_results' = [load_results EXCEPT ![LocalLoads] =
                                       IF Len(app.mammo_group) = 0 THEN <<>> ELSE Tail(@)]
           ELSE /\ app' = IF mammo_group_complete(app)
                          THEN push_frames_entry([app EXCEPT !.mammo_load_receiver = FALSE], "Group",
                                                 loaded_mammo_viewports(app))
                          ELSE [app EXCEPT !.mammo_load_receiver = FALSE]
                /\ UNCHANGED load_results
    /\ FramesUnchanged

\* open_history_entry(index): the frames of the view go into its entry, then
\* the entry is shown with the frames it holds.
OpenHistoryFrames(index, rendered) ==
    /\ index < Len(app.history_entries)
    /\ LET synced == sync_frames_to_history(app)
           entry == synced.history_entries[index + 1]
           single == entry.viewports[1]
       IN  app' = IF entry.kind = "Single"
                  THEN rebuild_texture(
                           [synced EXCEPT !.image = Some([path |-> single.path,
                                                          frame_count |-> single.frame_count]),
                                          !.current_frame =
                                              safe_frame(single.current_frame, single.frame_count),
                                          !.cine_mode = FALSE,
                                          !.mammo_group = <<>>,
                                          !.mammo_selected_index = 0],
                           rendered)
                  ELSE [synced EXCEPT !.mammo_load_receiver = FALSE,
                                      !.image = None,
                                      !.current_frame = 0,
                                      !.cine_mode = FALSE,
                                      !.mammo_group = [i \in 1 .. Len(entry.viewports) |->
                                                          Some(entry.viewports[i])],
                                      !.mammo_selected_index = 0]
    /\ load_results' = IF app'.mammo_load_receiver THEN load_results
                       ELSE [load_results EXCEPT ![LocalLoads] = <<>>]
    /\ FramesUnchanged

\* The C key or the cine button.
ToggleCine ==
    /\ app' = toggle_cine_mode(app)
    /\ UNCHANGED load_results
    /\ FramesUnchanged

AdvanceCine(frames_to_advance, rendered) ==
    /\ app.cine_mode
    /\ app' = advance_cine_if_needed(app, frames_to_advance, rendered)
    /\ UNCHANGED load_results
    /\ FramesUnchanged

\* The frame scroll over the single view.
ScrollSingleFrame(step, rendered) ==
    /\ app.image # None
    /\ Unwrap(app.image).frame_count > 1
    /\ app' = rebuild_texture(
                  [app EXCEPT !.current_frame =
                      clamp(@ + step, 0, Unwrap(app.image).frame_count - 1)],
                  rendered)
    /\ UNCHANGED load_results
    /\ FramesUnchanged

\* A click on a viewport of the group, or the frame scroll over it.
ClickViewport(index) ==
    /\ index < Len(app.mammo_group)
    /\ app.mammo_group[index + 1] # None
    /\ app' = [app EXCEPT !.mammo_selected_index = index]
    /\ UNCHANGED load_results
    /\ FramesUnchanged

ScrollGroupFrame(index, step) ==
    /\ index < Len(app.mammo_group)
    /\ app.mammo_group[index + 1] # None
    /\ Unwrap(app.mammo_group[index + 1]).frame_count > 1
    /\ LET viewport == Unwrap(app.mammo_group[index + 1])
           next_frame == clamp(viewport.current_frame + step, 0, viewport.frame_count - 1)
       IN  app' = set_mammo_group_frame([app EXCEPT !.mammo_selected_index = index], next_frame)
    /\ UNCHANGED load_results
    /\ FramesUnchanged

\* The frame slider or Reset Frame (frame 0) of the overlay, or a change of
\* the window that leaves the frame of the state as it is.
ApplyViewportState(frame_index, rendered) ==
    /\ active_viewport_state(app) # None
    /\ LET state == Unwrap(active_viewport_state(app))
       IN  /\ \/ frame_index = state.current_frame
              \/ state.frame_count > 1 /\ frame_index <= state.frame_count - 1
           /\ app' = apply_active_viewport_state(
                         app, [state EXCEPT !.current_frame = frame_index], rendered)
    /\ UNCHANGED load_results
    /\ FramesUnchanged

FramesNext ==
    \/ \E path \in SingleFiles, rendered \in BOOLEAN : LoadSingleFile(path, rendered)
    \/ LoadGroupFiles
    \/ PollGroupFrames
    \/ \E index \in 0 .. 1, rendered \in BOOLEAN : OpenHistoryFrames(index, rendered)
    \/ ToggleCine
    \/ \E frames_to_advance \in 1 .. MaxAdvance, rendered \in BOOLEAN :
           AdvanceCine(frames_to_advance, rendered)
    \/ \E step \in ScrollSteps, rendered \in BOOLEAN : ScrollSingleFrame(step, rendered)
    \/ \E index \in 0 .. 3 : ClickViewport(index)
    \/ \E index \in 0 .. 3, step \in ScrollSteps : ScrollGroupFrame(index, step)
    \/ \E frame_index \in 0 .. 2, rendered \in BOOLEAN : ApplyViewportState(frame_index, rendered)

SpecFrames == FramesInit /\ [][FramesNext]_vars

SingleFrameInRange ==
    app.image # None => app.current_frame < Unwrap(app.image).frame_count
GroupFramesInRange ==
    \A i \in 1 .. Len(app.mammo_group) :
        app.mammo_group[i] # None =>
            Unwrap(app.mammo_group[i]).current_frame < Unwrap(app.mammo_group[i]).frame_count

\* C39: after every operation of the viewer (a load, the opening of a history
\* entry, a cine step with its wrap-around, the frame scroll, the frame slider
\* and its reset) the frame of the single view is below the frame count of its
\* image, and the frame of every loaded viewport of the group is below the
\* frame count of that viewport.
C39_FramesBelowFrameCount == SingleFrameInRange /\ GroupFramesInRange
\* The group was scrolled to the last frame of its first file: its third file,
\* of two frames, is on its own last frame.
C39_Witness ==
    /\ mammo_group_complete(app)
    /\ Unwrap(app.mammo_group[1]).current_frame = FramesOfFile[GroupFiles[1]] - 1
    /\ Unwrap(app.mammo_group[3]).current_frame = FramesOfFile[GroupFiles[3]] - 1
    /\ FramesOfFile[GroupFiles[3]] < FramesOfFile[GroupFiles[1]]

----------------------------------------------------------------------------
\* Meta-Header Repair, applied to its own output.

\* The files repaired twice: those of RepairInputs, whole or cut, and those with
\* an element whose value ends in the letters DICM.
TwiceChunkNames == ChunkNames \cup {"DM"}
TwiceCuts == {0, 4, MaxCut}
TwiceInputs ==
    {in \in [kind : PrefixKinds,
             elems : UNION {[1 .. n -> TwiceChunkNames] : n \in 0 .. MaxElems},
             cut : TwiceCuts] :
        in.cut <= Len(ConcatChunks(in.elems))}

\* A second call of repair_missing_meta_group_length, on the buffer that the
\* first call returned.
RepairAgain ==
    /\ rp.done
    /\ IsSome(rp.out)
    /\ DOMAIN rp = {"done", "out"}
    /\ rp' = [done |-> TRUE, out |-> rp.out,
              again |-> repair_missing_meta_group_length(Unwrap(rp.out))]
    /\ UNCHANGED <<nonRpVars, input, opened>>

RepairTwiceInit ==
    /\ input \in TwiceInputs
    /\ rp = Pending
    /\ opened = NotOpened
    /\ FsIdle
    /\ LdIdle
    /\ AuxIdle
    /\ HsIdle
    /\ WbIdle

RepairTwiceNext ==
    \/ Repair
    \/ RepairAgain

SpecRepairTwice == RepairTwiceInit /\ [][RepairTwiceNext]_vars

RepairedTwice == rp.done /\ DOMAIN rp = {"done", "out", "again"}

\* C40: repair is idempotent in effect: for every input on which repair returns
\* a patched buffer b, repair(b) returns None, so that a second repair never
\* inserts a second group-length element.
C40_SecondRepairReturnsNone == RepairedTwice => rp.again = None

\* The patched buffer has the letters DICM at 128, which the file did not have.
MagicMovedTo128 ==
    /\ detect_dicom_prefix_offset(InputBytes(input)) = Some(4)
    /\ detect_dicom_prefix_offset(Unwrap(rp.out)) = Some(132)

\* C40, apart: the second repair returns None for every patched buffer in which
\* the prefix is found where it was found in the file.
C40_SecondRepairNoneUnlessMagicMoved ==
    (RepairedTwice /\ ~MagicMovedTo128) => rp.again = None

\* A file with the preamble was patched and the patched buffer repaired again.
C40_Patched132Again ==
    /\ RepairedTwice
    /\ input.kind = "preamble"
    /\ rp.again = None

====
